---- MODULE Spec2Model ----
(***************************************************************************)
(* aptible-mcp: the resource managers (models/*.py), the HTTP client and   *)
(* its operation poller (api_client.py) and the tool surface (main.py) as  *)
(* a state machine.  One action is one HTTP round trip of a handler plus   *)
(* the handler's code up to its next round trip; the responses of the      *)
(* platform API are the nondeterministic inputs.                           *)
(***************************************************************************)
EXTENDS Integers, Sequences, FiniteSets, TLC

VARIABLES
    pc,             \* position of the running call: "idle", a step name, "done"
    op,             \* the entry point that is running ("" when idle)
    arg,            \* its arguments
    loc,            \* its local variables
    log,            \* the HTTP requests the call has issued, with what came back
    outcome,        \* how the call ended: returned value or raised error
    opState,        \* the platform's state of the operation being waited on
    token,          \* AptibleApiClient._token
    stack_manager,  \* AccountManager.stack_manager is set
    APTIBLE_TOKEN,  \* the environment's token, read at import
    tokens_json,    \* ~/.aptible/tokens.json entry for the auth URL
    app_service_manager
                    \* AppManager's attribute service_manager: "unset", "None", "set"

vars == <<pc, op, arg, loc, log, outcome, opState, token, stack_manager, APTIBLE_TOKEN, tokens_json,
          app_service_manager>>

\* What no call writes: the process environment, the token file and the
\* service manager injected into the app manager.
env == <<APTIBLE_TOKEN, tokens_json, app_service_manager>>

(***************************************************************************)
(* Bounds of the model.                                                    *)
(***************************************************************************)
MaxId == 2          \* resource and operation ids are 1..MaxId
MaxList == 2        \* longest collection a list response carries
MaxPolls == 2       \* fetches of one wait the log counts (the count stops there)

Ids == 1..MaxId
Handles == {"web", "api"}
AccountHandles == {"prod", "dev"}
StackNames == {"shared"}
Orgs == {"org1", "org2"}
Types == {"redis"}
Images == {"nginx"}
Messages == {"boom"}

\* Python's None / a key that is not in a dict, per field type.
NoKey == "<nokey>"
NoneTok == "<None>"
NoEntry == "<noentry>"

\* A hydrated resource: its id, its name field (handle; name for a stack,
\* type for a database image), the id its parent link yields (account_id,
\* app_id, service_id, stack_id; 0 is None) and a stack's organization_id.
Ent(id, handle, parent, org) == [id |-> id, handle |-> handle, parent |-> parent, org |-> org]
NoEnt == Ent(0, "", 0, "")

(***************************************************************************)
(* Requests, responses, errors.                                            *)
(***************************************************************************)
\* One field of a JSON body: string-valued or number-valued.
F(k, s) == [k |-> k, s |-> s, n |-> 0]
N(k, n) == [k |-> k, s |-> "", n |-> n]

\* A request as logged: method, path {coll}/{id}/{sub}, whether the paging
\* query (?per_page=5000&no_embed=true) is attached, the JSON body, and what
\* came back (HTTP code; for a poll the status the code read, and the message).
\* rid is the id of the document that came back (0: none).  The fetches of
\* one wait are one entry: n counts them (up to MaxPolls) and resp, msg are
\* those of the latest.
Req(m, coll, id, sub, q, body, resp, msg) ==
    [m |-> m, coll |-> coll, id |-> id, sub |-> sub, q |-> q,
     body |-> body, resp |-> resp, msg |-> msg, rid |-> 0, n |-> 1]

Err(msg, s, n) == [msg |-> msg, s |-> s, n |-> n]
NoErr == Err("", "", 0)

None == [kind |-> "none", err |-> NoErr, val |-> NoEnt]
Returned(v) == [kind |-> "returned", err |-> NoErr, val |-> v]
Raised(e) == [kind |-> "raised", err |-> e, val |-> NoEnt]

(***************************************************************************)
(* Payloads of the platform and their links.                               *)
(***************************************************************************)
\* Relation names of a links mapping.
Rels == {"account", "app", "service", "stack", "database_image"}

\* The value a links mapping holds for a relation: whether the relation is a
\* key of the mapping, whether its value has "href", and the href, a string
\* as the sequence of its characters.
Link(present, has_href, href) == [present |-> present, has_href |-> has_href, href |-> href]
NoLink == Link(FALSE, FALSE, <<>>)

\* "s/1", "s/12", "7", "s/" and "".
Hrefs == {<<"s", "/", "1">>, <<"s", "/", "1", "2">>, <<"7">>, <<"s", "/">>, <<>>}
Links == {NoLink, Link(TRUE, FALSE, <<>>)} \cup {Link(TRUE, TRUE, h) : h \in Hrefs}

\* {}: a mapping without keys.
EmptyLinks == [r \in Rels |-> NoLink]

\* A key of a payload that holds a links mapping: absent, or present with it.
Absent == [present |-> FALSE, rel |-> EmptyLinks]
Dict(rel) == [present |-> TRUE, rel |-> rel]

\* A payload, as far as its keys "_links" and "links" go.
Payload(_links, links) == [_links |-> _links, links |-> links]

\* What a computed relation id comes to: an integer, None, or an exception.
Integer(n) == [kind |-> "int", n |-> n, err |-> NoErr]
Null == [kind |-> "None", n |-> 0, err |-> NoErr]
Fails(msg) == [kind |-> "raise", n |-> 0, err |-> Err(msg, "", 0)]

\* count and memory are container_count and container_memory_limit_mb; -1 is
\* None.  payload and links are <<>> in a call that validates no payload.
NoArg == [kind |-> "", handle |-> "", account |-> "", id |-> 0, image |-> "", image_id |-> 0,
          service |-> "", count |-> -1, memory |-> -1, payload |-> <<>>]
NoLoc == [id |-> 0, opid |-> 0, ret |-> "", ent |-> NoEnt, items |-> <<>>, matches |-> <<>>,
          account |-> NoEnt, type |-> "", org |-> "", listed |-> <<>>,
          payload |-> <<>>, links |-> <<>>, derived |-> Null]

Seqs(S, n) == UNION {[1..k -> S] : k \in 0..n}

\* A collection lists a resource once: ids are the platform's primary keys.
Listing(S) == {s \in Seqs(S, MaxList) : \A i, j \in 1..Len(s) : i # j => s[i].id # s[j].id}

AppList == Listing({Ent(i, h, a, "") : i \in Ids, h \in Handles, a \in Ids})
DatabaseList == Listing({Ent(i, h, a, "") : i \in Ids, h \in Handles, a \in Ids \cup {0}})
ServiceList == Listing({Ent(i, h, 1, "") : i \in Ids, h \in Handles})
VhostList == Listing({Ent(i, "", 1, "") : i \in Ids})
AccountList == Listing({Ent(i, h, 0, "") : i \in Ids, h \in AccountHandles})
StackList == Listing({Ent(i, n, 0, o) : i \in Ids, n \in StackNames, o \in {"org1", ""}})

\* GET /database_images: an image is its id and its type ("" is no type).
ImageList == Seqs({Ent(i, t, 0, "") : i \in Ids, t \in Types \cup {""}}, MaxList)

Collection(kind) ==
    CASE kind = "apps" -> AppList
      [] kind = "databases" -> DatabaseList
      [] kind = "services" -> ServiceList
      [] kind = "vhosts" -> VhostList
      [] kind = "accounts" -> AccountList
      [] kind = "stacks" -> StackList
      [] kind = "database_images" -> ImageList

\* Responses to a request other than a poll: an HTTP error, or 200 with the
\* HAL envelope of a collection (embedded: it has "_embedded"), or 200 with a
\* single document that has an id.
Resp(code, embedded, items, id) == [code |-> code, embedded |-> embedded, items |-> items, id |-> id]
ErrorResponses == {Resp(c, TRUE, <<>>, 0) : c \in {404, 500}}
ListResponses(kind) ==
    ErrorResponses \cup {Resp(200, FALSE, <<>>, 0)}
    \cup {Resp(200, TRUE, s, 0) : s \in Collection(kind)}
DocResponses == ErrorResponses \cup {Resp(200, TRUE, <<>>, i) : i \in Ids}

\* Operations have ids of their own.
OpIds == {101, 102}
OperationResponses == ErrorResponses \cup {Resp(200, TRUE, <<>>, i) : i \in OpIds}

ImageResponses ==
    ErrorResponses \cup {Resp(200, FALSE, <<>>, 0)} \cup {Resp(200, TRUE, s, 0) : s \in ImageList}

\* GET {auth}/organizations: the ids of the user's organizations.
OrganizationResponses ==
    ErrorResponses \cup {Resp(200, FALSE, <<>>, 0)}
    \cup {Resp(200, TRUE, s, 0) : s \in Seqs(Orgs, MaxList)}

\* What the log shows of such a response.
Seen(r) == "http" \o ToString(r.code) \o (IF r.embedded THEN "" ELSE " without _embedded")

(***************************************************************************)
(* api_client.py: token resolution.                                        *)
(***************************************************************************)
Truthy(s) == s \notin {"", NoneTok, NoEntry, NoKey}

\* A get_token that resolves the token anew at every call.
get_token_unmemoized ==
    IF Truthy(APTIBLE_TOKEN) THEN [ok |-> TRUE, memo |-> APTIBLE_TOKEN, err |-> NoErr]
    ELSE IF tokens_json = NoEntry
         THEN [ok |-> FALSE, memo |-> token,
               err |-> Err("Authentication token not found. Please login to Aptible CLI first.", "", 0)]
    ELSE IF ~Truthy(tokens_json)
         THEN [ok |-> FALSE, memo |-> tokens_json, err |-> Err("You are not logged in", "", 0)]
    ELSE [ok |-> TRUE, memo |-> tokens_json, err |-> NoErr]

\* get_token: the memoized token, else the environment's, else the file's.
\* memo is the value self._token holds afterwards.
get_token ==
    IF Truthy(token) THEN [ok |-> TRUE, memo |-> token, err |-> NoErr]
    ELSE IF Truthy(APTIBLE_TOKEN) THEN [ok |-> TRUE, memo |-> APTIBLE_TOKEN, err |-> NoErr]
    ELSE IF tokens_json = NoEntry
         THEN [ok |-> FALSE, memo |-> token,
               err |-> Err("Authentication token not found. Please login to Aptible CLI first.", "", 0)]
    ELSE IF ~Truthy(tokens_json)
         THEN [ok |-> FALSE, memo |-> tokens_json, err |-> Err("You are not logged in", "", 0)]
    ELSE [ok |-> TRUE, memo |-> tokens_json, err |-> NoErr]

(***************************************************************************)
(* api_client.py: wait_for_operation.                                      *)
(***************************************************************************)
OtherCodes == {500}
InProgress == {"running", NoKey}
Terminal == {"succeeded", "failed", "gone"}
OpStates == InProgress \cup Terminal

\* What a GET /operations/{id} can answer while the platform holds the
\* operation in state s: 404 once the record is gone, an unrelated HTTP
\* error at any time, else the operation's document.
PollResponses(s) ==
    {[code |-> c, status |-> NoKey, message |-> NoKey] : c \in OtherCodes}
    \cup (IF s = "gone"
          THEN {[code |-> 404, status |-> NoKey, message |-> NoKey]}
          ELSE {[code |-> 200, status |-> s, message |-> m] :
                   m \in (IF s = "failed" THEN Messages \cup {NoKey} ELSE {NoKey})})

\* dict.get(key, default)
Get(v, default) == IF v = NoKey THEN default ELSE v

\* A poller that takes an operation still running for a finished one.
done_states_early == {"succeeded", "failed", "running"}

done_states == {"succeeded", "failed"}

\* A handler that swallows every HTTP error of the fetch, not only 404.
IsDeleted_any_error(code) == code >= 400

\* except HTTPError: status_code == 404 is the operation having been deleted.
IsDeleted(code) == code = 404

\* A failure text that drops the platform's message.
failure_message_dropped(r) == "No error message"

\* response.get('message', 'No error message')
failure_message(r) == Get(r.message, "No error message")

\* One iteration of the loop on response r: "return", "raise" (with err) or
\* "again" (back to the top of while True).
\* A loop that gives up after a number of fetches.
while_fetches_left(fetches) == fetches < MaxPolls

\* wait_for_operation's loop condition, `while True`, after so many fetches;
\* a loop whose condition fails falls off the function's end, which returns.
while_True(fetches) == TRUE

wait_for_operation(operation_id, r) ==
    IF r.code # 200
    THEN IF IsDeleted(r.code)
         THEN [kind |-> "return", err |-> NoErr]
         ELSE [kind |-> "raise", err |-> Err("HTTPError", "", r.code)]
    ELSE LET status == Get(r.status, "unknown") IN
         IF status \in done_states
         THEN IF status = "failed"
              THEN [kind |-> "raise",
                    err |-> Err("Operation failed", failure_message(r), operation_id)]
              ELSE [kind |-> "return", err |-> NoErr]
         ELSE [kind |-> "again", err |-> NoErr]

\* What the log shows for a poll: the HTTP error, or the status the loop read.
PollSeen(r) == IF r.code # 200 THEN "http" \o ToString(r.code) ELSE Get(r.status, "unknown")

Last(l) == l[Len(l)]
IsPoll(e) == e.m = "GET" /\ e.coll = "operations"

Min(a, b) == IF a < b THEN a ELSE b

\* A fetch that follows a fetch is another iteration of the same wait (a
\* POST stands between two waits): it updates that wait's entry.
Logged(l, e) ==
    IF l # <<>> /\ IsPoll(l[Len(l)])
    THEN [l EXCEPT ![Len(l)] = [e EXCEPT !.n = Min(l[Len(l)].n + 1, MaxPolls)]]
    ELSE Append(l, e)

(***************************************************************************)
(* models/base.py, models/account.py: the shared manager functions.        *)
(***************************************************************************)
Listed(items) == [ok |-> TRUE, items |-> items, err |-> NoErr]

\* ResourceManager.list: response["_embedded"][resource_name], hydrated.
ResourceManager_list(r) ==
    IF r.embedded THEN Listed(r.items)
    ELSE [ok |-> FALSE, items |-> <<>>, err |-> Err("KeyError", "_embedded", 0)]

\* AccountManager.list: an envelope without "_embedded" is an empty list.
AccountManager_list(r) == IF r.embedded THEN Listed(r.items) ELSE Listed(<<>>)

First(s) == IF s = <<>> THEN NoEnt ELSE s[1]

\* A scan that keeps going and so ends on the last item with the identifier.
get_last(items, identifier) ==
    LET found == SelectSeq(items, LAMBDA e : e.handle = identifier) IN
    IF found = <<>> THEN NoEnt ELSE found[Len(found)]

\* ResourceManager.get: the first listed item whose name field is the identifier.
get(items, identifier) == First(SelectSeq(items, LAMBDA e : e.handle = identifier))

\* ResourceManager.get_by_id: the first listed item with the id.
get_by_id(items, id) == First(SelectSeq(items, LAMBDA e : e.id = id))

(***************************************************************************)
(* main.py: get_app, get_database.                                         *)
(***************************************************************************)
Singular(kind) ==
    CASE kind = "apps" -> "app"
      [] kind = "databases" -> "database"
      [] kind = "services" -> "service"
      [] kind = "vhosts" -> "vhost"

Decision(kind, err, ent, matches) == [kind |-> kind, err |-> err, ent |-> ent, matches |-> matches]

\* A lookup that settles an ambiguity by taking the first match.
get_matches_first(kind, items, handle, account_handle) ==
    LET matches == SelectSeq(items, LAMBDA e : e.handle = handle) IN
    IF Len(matches) = 0
    THEN Decision("raise", Err("No " \o Singular(kind) \o " with handle", handle, 0), NoEnt, <<>>)
    ELSE IF ~Truthy(account_handle)
    THEN Decision("return", NoErr, matches[1], <<>>)
    ELSE Decision("account", NoErr, NoEnt, matches)

\* get_app / get_database once the collection is listed: filter by handle,
\* then no match, the single match, the account scope, or ambiguity.
get_matches(kind, items, handle, account_handle) ==
    LET matches == SelectSeq(items, LAMBDA e : e.handle = handle) IN
    IF Len(matches) = 0
    THEN Decision("raise", Err("No " \o Singular(kind) \o " with handle", handle, 0), NoEnt, <<>>)
    ELSE IF Len(matches) = 1 /\ ~Truthy(account_handle)
    THEN Decision("return", NoErr, matches[1], <<>>)
    ELSE IF Truthy(account_handle)
    THEN Decision("account", NoErr, NoEnt, matches)
    ELSE Decision("raise",
                  Err("Multiple " \o kind \o " found with handle. Please provide an account handle.",
                      handle, 0),
                  NoEnt, <<>>)

\* A scoped lookup that returns a single match without comparing accounts.
get_in_account_single(kind, matches, accounts, handle, account_handle) ==
    LET account == get(accounts, account_handle)
        account_matches == IF Len(matches) = 1 THEN matches
                           ELSE SelectSeq(matches, LAMBDA e : e.parent = account.id)
    IN  IF account = NoEnt
        THEN Decision("raise", Err("Account not found", account_handle, 0), NoEnt, <<>>)
        ELSE IF account_matches = <<>>
        THEN Decision("raise",
                      Err("No " \o Singular(kind) \o " with handle in account " \o account_handle,
                          handle, 0),
                      NoEnt, <<>>)
        ELSE Decision("return", NoErr, account_matches[1], <<>>)

\* get_app / get_database with an account handle, once the accounts are
\* listed: resolve the account, keep the matches that belong to it.
get_in_account(kind, matches, accounts, handle, account_handle) ==
    LET account == get(accounts, account_handle)
        account_matches == SelectSeq(matches, LAMBDA e : e.parent = account.id)
    IN  IF account = NoEnt
        THEN Decision("raise", Err("Account not found", account_handle, 0), NoEnt, <<>>)
        ELSE IF account_matches = <<>>
        THEN Decision("raise",
                      Err("No " \o Singular(kind) \o " with handle in account " \o account_handle,
                          handle, 0),
                      NoEnt, <<>>)
        ELSE Decision("return", NoErr, account_matches[1], <<>>)

(***************************************************************************)
(* models/*.py: delete.                                                    *)
(***************************************************************************)
\* The delete a manager runs.  AppManager.delete, ServiceManager.delete and
\* VhostManager.delete_vhost look the resource up and deprovision it;
\* DatabaseManager defines no delete and inherits ResourceManager.delete.
delete_method(kind) == IF kind = "databases" THEN "delete_raw" ELSE "delete_lookup"

not_found(kind, id) ==
    CASE kind = "apps" -> Err("App with ID not found", "", id)
      [] kind = "services" -> Err("No service found with id", "", id)
      [] kind = "vhosts" -> Err("No vhost found with id", "", id)
      [] OTHER -> Err("not found", "", id)

(***************************************************************************)
(* models/*.py: create.                                                    *)
(***************************************************************************)
\* In a create's data, a handle of NoKey and an id of -1 are keys the dict
\* does not have; "" and 0 are values Python takes for false (None, "", 0).
\* AccountManager.create reads with data.get and checks `if not`.
AccountManager_required(a) ==
    IF ~Truthy(a.handle) THEN Err("A handle is required.", "handle", 0)
    ELSE IF a.id <= 0 THEN Err("A stack_id is required.", "stack_id", 0)
    ELSE NoErr

\* DatabaseManager.create reads with data[...] and checks `if not`.
DatabaseManager_required(a) ==
    IF a.handle = NoKey THEN Err("KeyError", "handle", 0)
    ELSE IF ~Truthy(a.handle) THEN Err("A handle is required", "handle", 0)
    ELSE IF a.id < 0 THEN Err("KeyError", "account_id", 0)
    ELSE IF a.id = 0 THEN Err("An account_id is required", "account_id", 0)
    ELSE IF a.image_id < 0 THEN Err("KeyError", "image_id", 0)
    ELSE IF a.image_id = 0 THEN Err("A image_id is required", "image_id", 0)
    ELSE NoErr

\* VhostManager.create reads data["service_id"] and checks `if not`.
VhostManager_required(a) ==
    IF a.id < 0 THEN Err("KeyError", "service_id", 0)
    ELSE IF a.id = 0 THEN Err("A service_id is required.", "service_id", 0)
    ELSE NoErr

\* AppManager.create(handle, account_id, docker_image) checks nothing.
AppManager_required(a) == NoErr

required(kind, a) ==
    CASE kind = "accounts" -> AccountManager_required(a)
      [] kind = "databases" -> DatabaseManager_required(a)
      [] kind = "vhosts" -> VhostManager_required(a)
      [] kind = "apps" -> AppManager_required(a)

\* A choice that takes the first of several images with the id.
select_image_first(items, image_id) ==
    LET images == SelectSeq(items, LAMBDA img : img.id = image_id) IN
    IF images = <<>>
    THEN [err |-> Err("No database image found with id", "", image_id), type |-> ""]
    ELSE [err |-> NoErr,
          type |-> IF Truthy(images[1].handle) THEN images[1].handle ELSE "postgresql"]

\* DatabaseManager.create: the listed images with the id; none and several
\* are errors; the type is the image's, or "postgresql" when it has none.
select_image(items, image_id) ==
    LET images == SelectSeq(items, LAMBDA img : img.id = image_id) IN
    IF images = <<>>
    THEN [err |-> Err("No database image found with id", "", image_id), type |-> ""]
    ELSE IF Len(images) > 1
    THEN [err |-> Err("Multiple database images found with id", "", image_id), type |-> ""]
    ELSE [err |-> NoErr,
          type |-> IF Truthy(images[1].handle) THEN images[1].handle ELSE "postgresql"]

\* The two account types the wrong way round.
account_type_swapped(stack) == IF ~Truthy(stack.org) THEN "production" ELSE "development"

\* AccountManager.create: account_type.
account_type(stack) == IF ~Truthy(stack.org) THEN "development" ELSE "production"

\* api_client.organization_id on the response of GET {auth}/organizations:
\* orgs = response.json()["_embedded"]["organizations"]; `orgs == 0` is never
\* true of a list; orgs[0]["id"].
organization_id(r) ==
    IF ~r.embedded THEN [err |-> Err("KeyError", "_embedded", 0), id |-> ""]
    ELSE IF r.items = <<>> THEN [err |-> Err("IndexError", "list index out of range", 0), id |-> ""]
    ELSE [err |-> NoErr, id |-> r.items[1]]

\* An env without FORCE_SSL.
app_env_image_only(docker_image) == {F("env.APTIBLE_DOCKER_IMAGE", docker_image)}

\* AppManager.create: env.
app_env(docker_image) == {F("env.FORCE_SSL", "1"), F("env.APTIBLE_DOCKER_IMAGE", docker_image)}

\* The POST that creates the resource.
create_request(kind, a, l) ==
    CASE kind = "apps" -> [m |-> "POST", coll |-> "accounts", id |-> a.id, sub |-> "apps",
                           body |-> {F("handle", a.handle)}]
      [] kind = "databases" ->
            [m |-> "POST", coll |-> "accounts", id |-> a.id, sub |-> "databases",
             body |-> {F("handle", a.handle), N("database_image_id", a.image_id),
                       F("type", l.type)}]
      [] kind = "vhosts" ->
            [m |-> "POST", coll |-> "services", id |-> a.id, sub |-> "vhosts",
             body |-> {N("service_id", a.id), F("type", "http"), F("platform", "alb"),
                       F("load_balancing_algorithm_type", "round_robin"),
                       F("default", "True"), F("acme", "False"), F("internal", "False")}]
      [] kind = "accounts" ->
            [m |-> "POST", coll |-> "accounts", id |-> 0, sub |-> "",
             body |-> {F("handle", a.handle), N("stack_id", l.ent.id), F("type", l.type),
                       F("organization_id", l.org)}]

\* What a create does once the resource is posted: AppManager.create
\* configures when it has a docker image and is done otherwise,
\* DatabaseManager.create and VhostManager.create provision,
\* AccountManager.create is done.
after_post(kind, a) ==
    CASE kind = "apps" -> IF Truthy(a.image) THEN "create_configure" ELSE "done"
      [] kind \in {"databases", "vhosts"} -> "create_provision"
      [] OTHER -> "done"

\* A provision posted under the parent's id instead of the new resource's.
provision_under_parent(kind, l, a) == [coll |-> kind, id |-> a.id]

\* The operations sub-collection the provision is posted under.
provision_under(kind, l, a) == [coll |-> kind, id |-> l.ent.id]

(***************************************************************************)
(* Shared shapes of a step.                                                *)
(***************************************************************************)
Finish(o) == pc' = "done" /\ outcome' = o
Return(v) == Finish(Returned(v)) /\ UNCHANGED <<loc, opState>>
Raise(e) == Finish(Raised(e)) /\ UNCHANGED <<loc, opState>>
Goto(p, l) == pc' = p /\ loc' = l /\ UNCHANGED <<outcome, opState>>

\* The call ends here, with these locals.
End(o, l) == Finish(o) /\ loc' = l /\ UNCHANGED opState

\* A wait on another operation than the one the POST returned.
Await_another_operation(opid, ret, l) ==
    /\ pc' = "poll"
    /\ loc' = [l EXCEPT !.opid = CHOOSE o \in OpIds : o # opid, !.ret = ret]
    /\ opState' \in OpStates
    /\ UNCHANGED outcome

\* api_client.wait_for_operation(response["id"]), then on to step ret.  The
\* operation the platform has just created may be in any state by the time
\* it is first fetched.
Await(opid, ret, l) ==
    /\ pc' = "poll"
    /\ loc' = [l EXCEPT !.opid = opid, !.ret = ret]
    /\ opState' \in OpStates
    /\ UNCHANGED outcome

\* A create that deprovisions the resource it made when a later step fails.
rollback_deprovision(o, a, l) ==
    IF o = "create" /\ l.ent # NoEnt
    THEN <<[m |-> "POST", coll |-> a.kind, id |-> l.ent.id, sub |-> "operations", q |-> FALSE,
            body |-> {F("type", "deprovision")}, resp |-> "http200", msg |-> NoKey,
            rid |-> 0, n |-> 1]>>
    ELSE <<>>

\* The requests a call sends on its way out when one of its steps raises:
\* no handler has a try/except or finally around its steps, so none.
rollback(o, a, l) == <<>>

\* _get_headers failed: the request is never sent.
AuthFailed(t) == Raise(t.err)

\* A request other than a poll: get_token, the round trip, raise_for_status.
Send(rq, responses, OnOk(_)) ==
    LET t == get_token IN
    /\ token' = t.memo
    /\ IF ~t.ok THEN AuthFailed(t) /\ UNCHANGED log
       ELSE \E r \in responses :
              /\ log' = Append(log, [rq EXCEPT !.resp = Seen(r), !.rid = r.id])
                         \o (IF r.code # 200 THEN rollback(op, arg, loc) ELSE <<>>)
              /\ IF r.code # 200
                 THEN Raise(Err("HTTPError", "", r.code))
                 ELSE OnOk(r)

\* A call comes in.
Start(o, a, p, l) ==
    /\ pc = "idle"
    /\ op' = o
    /\ arg' = a
    /\ pc' = p
    /\ loc' = l
    /\ log' = <<>>
    /\ outcome' = None
    /\ UNCHANGED <<token, stack_manager, env>>

GET(coll, id, sub, q) == Req("GET", coll, id, sub, q, {}, "", NoKey)
POST(coll, id, sub, body) == Req("POST", coll, id, sub, FALSE, body, "", NoKey)
DELETE(coll, id) == Req("DELETE", coll, id, "", FALSE, {}, "", NoKey)

(***************************************************************************)
(* models/base.py, models/account.py, models/stack.py: list, get and       *)
(* get_by_id called on a manager.                                          *)
(***************************************************************************)
\* The managers these are called on: AppManager (the base methods),
\* AccountManager (its own list and get_by_id), StackManager (name_field).
Managers == {"apps", "accounts", "stacks"}

\* The collections that are only listed this way: list_databases,
\* list_vhosts, list_available_database_types.
Listed_only == {"databases", "vhosts", "database_images"}

\* Values of a manager's name field.
Names(kind) ==
    CASE kind = "accounts" -> AccountHandles
      [] kind = "stacks" -> StackNames
      [] OTHER -> Handles

\* A list that is sent as a PUT.
list_request_put(kind) == Req("PUT", kind, 0, "", TRUE, {}, "", NoKey)

\* self.list(): AccountManager.list GETs /accounts as it is, and so does
\* list_available_types /database_images; ResourceManager.list attaches the
\* paging query.
list_request(kind) ==
    IF kind \in {"accounts", "database_images"} THEN GET(kind, 0, "", FALSE)
    ELSE GET(kind, 0, "", TRUE)

list(kind, r) == IF kind = "accounts" THEN AccountManager_list(r) ELSE ResourceManager_list(r)

\* self.get_by_id(id): AccountManager.get_by_id fetches /accounts/{id} first,
\* ResourceManager.get_by_id lists.
get_by_id_method(kind) == IF kind = "accounts" THEN "AccountManager_get_by_id" ELSE "manager_list"

(***************************************************************************)
(* models/service.py, main.py: services of an app, scale.                  *)
(***************************************************************************)
\* A payload built on truthiness, which drops a count of 0.
scale_payload_truthy(container_count, container_memory_limit_mb) ==
    {F("type", "scale")}
    \cup (IF container_count > 0 THEN {N("container_count", container_count)} ELSE {})
    \cup (IF container_memory_limit_mb > 0
          THEN {N("container_size", container_memory_limit_mb)} ELSE {})

\* ServiceManager.scale: operation_data.
scale_payload(container_count, container_memory_limit_mb) ==
    {F("type", "scale")}
    \cup (IF container_count # -1 THEN {N("container_count", container_count)} ELSE {})
    \cup (IF container_memory_limit_mb # -1
          THEN {N("container_size", container_memory_limit_mb)} ELSE {})

\* A scale_service that checks nothing.
scale_service_unchecked(container_count, container_memory_limit_mb) == NoErr

\* scale_service: the check of its parameters.
scale_service_check(container_count, container_memory_limit_mb) ==
    IF container_count = -1 /\ container_memory_limit_mb = -1
    THEN Err("ValueError", "Must specify at least one of container_count or container_size", 0)
    ELSE NoErr

\* ServiceManager.get_by_handle_and_app over the services of the app; also
\* create_vhost's service_matches[0].
get_by_handle_and_app(services, handle) ==
    First(SelectSeq(services, LAMBDA e : e.handle = handle))

(***************************************************************************)
(* models/*.py: validation of a payload and the computed relation ids.     *)
(***************************************************************************)
\* The relations a model computes an id from, and the computed fields.
Relations(model) ==
    CASE model = "App" -> {"account"}
      [] model = "Service" -> {"app"}
      [] model = "Vhost" -> {"service"}
      [] model = "Account" -> {"stack"}
      [] model = "Database" -> {"account", "database_image"}

Fields(model) ==
    CASE model = "App" -> {"account_id"}
      [] model = "Service" -> {"app_id"}
      [] model = "Vhost" -> {"service_id"}
      [] model = "Account" -> {"stack_id"}
      [] model = "Database" -> {"account_id", "database_image_id"}

\* Links mappings of the payloads of a model.
LinkMaps(model) ==
    {[r \in Rels |-> IF r \in Relations(model) THEN f[r] ELSE NoLink] :
        f \in [Relations(model) -> Links]}

\* Payloads handed to model_validate: neither key, one of them, or both,
\* with under "links" a mapping that is not the one under "_links".
Payloads(model) ==
    {Payload(Absent, Absent)}
    \cup {Payload(Dict(f), Absent) : f \in LinkMaps(model)}
    \cup {Payload(Absent, Dict(f)) : f \in LinkMaps(model)}
    \cup {Payload(Dict(f), Dict([r \in Rels |-> Link(TRUE, TRUE, <<"7">>)])) :
             f \in LinkMaps(model)}

\* A validator that keeps the "links" the payload already has.
transform_links_setdefault(payload) ==
    IF payload._links.present
    THEN Payload(Absent, IF payload.links.present THEN payload.links ELSE payload._links)
    ELSE payload

\* ResourceBase.transform_links: data['links'] = data.pop('_links'), on the
\* payload itself.
transform_links(payload) ==
    IF payload._links.present THEN Payload(Absent, payload._links) ELSE payload

\* model_validate: the payload as the validator leaves it and the entity's
\* links (links: Dict = {} when the payload has none).
model_validate(payload) ==
    LET validated == transform_links(payload) IN
    [payload |-> validated,
     links |-> IF validated.links.present THEN validated.links.rel ELSE EmptyLinks]

\* href.split("/")[-1]: the characters after the last "/".
RECURSIVE split_last(_)
split_last(href) ==
    IF href = <<>> \/ href[Len(href)] = "/" THEN <<>>
    ELSE Append(split_last(SubSeq(href, 1, Len(href) - 1)), href[Len(href)])

Digits == <<"0", "1", "2", "3", "4", "5", "6", "7", "8", "9">>

\* int(s) of a string of decimal digits; of anything else a ValueError.
RECURSIVE decimal(_)
decimal(s) ==
    IF s = <<>> THEN 0
    ELSE 10 * decimal(SubSeq(s, 1, Len(s) - 1)) + (CHOOSE d \in 1..10 : Digits[d] = s[Len(s)]) - 1

int(s) ==
    IF s # <<>> /\ \A i \in 1..Len(s) : \E d \in 1..10 : Digits[d] = s[i]
    THEN Integer(decimal(s))
    ELSE Fails("ValueError: invalid literal for int() with base 10")

\* The body the six computed fields share: the relation is missing (or the
\* mapping is empty), its link has no href or a falsy one, or the id is the
\* href's last path segment.
relation_id(links, rel, missing, no_href) ==
    IF links = EmptyLinks \/ ~links[rel].present THEN missing
    ELSE IF ~links[rel].has_href \/ links[rel].href = <<>> THEN no_href
    ELSE int(split_last(links[rel].href))

App_account_id(links) ==
    relation_id(links, "account", Fails("Account is missing from _links"),
                Fails("Account link is missing href"))

Service_app_id(links) ==
    relation_id(links, "app", Fails("App is missing from links"),
                Fails("App link is missing href"))

Vhost_service_id(links) ==
    relation_id(links, "service", Fails("Service is missing from links"),
                Fails("Service link is missing href"))

Account_stack_id(links) == relation_id(links, "stack", Null, Null)

\* A database whose account is mandatory, as an app's is.
Database_account_id_mandatory(links) == App_account_id(links)

Database_account_id(links) == relation_id(links, "account", Null, Null)

Database_database_image_id(links) == relation_id(links, "database_image", Null, Null)

\* getattr(entity, field)
computed_field(model, field, links) ==
    CASE model = "App" -> App_account_id(links)
      [] model = "Service" -> Service_app_id(links)
      [] model = "Vhost" -> Vhost_service_id(links)
      [] model = "Account" -> Account_stack_id(links)
      [] model = "Database" /\ field = "account_id" -> Database_account_id(links)
      [] model = "Database" /\ field = "database_image_id" -> Database_database_image_id(links)

(***************************************************************************)
(* main.py: get_vhost, get_accounts_by_stack.                              *)
(***************************************************************************)
\* ResourceManager.get on a manager whose model has no attribute named by
\* name_field: VhostManager keeps name_field = "handle" and Vhost declares no
\* handle, so getattr(item, "handle") on the first item scanned is an
\* AttributeError; an empty list is scanned without one.
getattr_name_field(kind, items) ==
    IF kind = "vhosts" /\ items # <<>>
    THEN Err("AttributeError", "'Vhost' object has no attribute 'handle'", 0)
    ELSE NoErr

\* Accounts as GET /accounts lists them for get_accounts_by_stack: the
\* parent is the id the stack link yields (0: no stack link).
AccountsOfStacks == Listing({Ent(i, "prod", s, "") : i \in Ids, s \in Ids \cup {0}})

\* A filter that also lets through the accounts without a stack link.
get_by_stack_id_or_unlinked(accounts, stack_id) ==
    SelectSeq(accounts, LAMBDA account : account.parent \in {stack_id, 0})

\* AccountManager.get_by_stack_id: the comprehension over the listed accounts.
get_by_stack_id(accounts, stack_id) ==
    SelectSeq(accounts, LAMBDA account : account.parent = stack_id)

(***************************************************************************)
(* models/app.py: get_services.                                            *)
(***************************************************************************)
\* AppManager.get_services up to its call of list_by_app: hasattr(self,
\* "service_manager") is false only for an attribute never set; one set to
\* None passes it, and None has no list_by_app.
get_services(service_manager) ==
    CASE service_manager = "unset" -> Err("ServiceManager not injected into AppManager", "", 0)
      [] service_manager = "None" ->
            Err("AttributeError", "'NoneType' object has no attribute 'list_by_app'", 0)
      [] OTHER -> NoErr

(***************************************************************************)
(* main.py: create_app, create_vhost.                                      *)
(***************************************************************************)
\* Python binds a call's positional arguments to the parameters that have no
\* default; a parameter left without one is a TypeError.
bind(arguments, parameters) ==
    IF Len(arguments) < Len(parameters)
    THEN Err("TypeError", "missing required positional argument: "
                          \o parameters[Len(arguments) + 1], 0)
    ELSE NoErr

\* AppManager.create(self, handle, account_id, docker_image=None).
AppManager_create_parameters == <<"handle", "account_id">>

\* create_app: app_manager.create(data).
create_app_arguments == <<"data">>

\* The data of the create being run: a manager create's own arguments, or
\* what create_vhost hands to vhost_manager.create.
data ==
    IF op = "create_vhost" THEN [NoArg EXCEPT !.kind = "vhosts", !.id = loc.id]
    ELSE IF op = "create_account"
    THEN [NoArg EXCEPT !.kind = "accounts", !.handle = arg.handle, !.id = loc.id]
    ELSE arg

\* An account manager that makes its StackManager before it checks the data.
ensure_stack_manager_eager(had, e) == TRUE

\* AccountManager.create: whether self.stack_manager is set afterwards, given
\* whether it was and what the checks of handle and stack_id found.
ensure_stack_manager(had, e) == had \/ e = NoErr

\* The client and the managers as their constructors leave them, and the
\* environment.
Constructed ==
    /\ pc = "idle"
    /\ op = ""
    /\ arg = NoArg
    /\ loc = NoLoc
    /\ log = <<>>
    /\ outcome = None
    /\ opState = "gone"
    /\ token = NoneTok
    /\ stack_manager = FALSE
    /\ \/ APTIBLE_TOKEN = "envtok" /\ tokens_json = NoEntry
       \/ APTIBLE_TOKEN = NoneTok /\ tokens_json \in {NoEntry, "", "filetok"}

\* main.py: app_manager.service_manager = service_manager, at import.
Init == Constructed /\ app_service_manager = "set"

(***************************************************************************)
(* api_client.py: the poller.                                              *)
(***************************************************************************)
\* api_client.wait_for_operation(operation_id), called on its own.
Call_wait_for_operation ==
    /\ \E id \in OpIds :
          Start("wait_for_operation", [NoArg EXCEPT !.id = id], "poll",
                [NoLoc EXCEPT !.opid = id, !.ret = "done"])
    /\ opState' \in OpStates

\* One iteration of wait_for_operation's loop.
Poll ==
    /\ pc = "poll"
    /\ LET t == get_token IN
       /\ token' = t.memo
       /\ IF ~t.ok THEN AuthFailed(t) /\ UNCHANGED log
          ELSE \E r \in PollResponses(opState) :
                 LET w == wait_for_operation(loc.opid, r) IN
                 /\ log' = Logged(log, Req("GET", "operations", loc.opid, "", FALSE, {},
                                           PollSeen(r), r.message))
                            \o (IF w.kind = "raise" THEN rollback(op, arg, loc) ELSE <<>>)
                 /\ CASE w.kind = "raise" -> Finish(Raised(w.err))
                      [] w.kind = "return" /\ loc.ret = "done" -> Finish(Returned(loc.ent))
                      [] w.kind = "return" /\ loc.ret # "done" ->
                            pc' = loc.ret /\ UNCHANGED outcome
                      [] w.kind = "again" /\ while_True(Last(log').n) ->
                            UNCHANGED <<pc, outcome>>
                      [] w.kind = "again" /\ ~while_True(Last(log').n) /\ loc.ret = "done" ->
                            Finish(Returned(loc.ent))
                      [] w.kind = "again" /\ ~while_True(Last(log').n) /\ loc.ret # "done" ->
                            pc' = loc.ret /\ UNCHANGED outcome
                 /\ UNCHANGED <<loc, opState>>
    /\ UNCHANGED <<op, arg, stack_manager, env>>

\* The platform works on the operation while the client waits.
PlatformStep ==
    /\ pc = "poll"
    /\ opState \in InProgress
    /\ \E s \in OpStates \ {opState} : opState' = s
    /\ UNCHANGED <<pc, op, arg, loc, log, outcome, token, stack_manager, env>>

\* `aptible login` writes the token file's entry and logout removes it,
\* between calls.
WriteTokensFile ==
    /\ pc = "idle"
    /\ \E v \in {NoEntry, "filetok"} \ {tokens_json} : tokens_json' = v
    /\ UNCHANGED <<pc, op, arg, loc, log, outcome, opState, token, stack_manager, APTIBLE_TOKEN,
                   app_service_manager>>

\* The call's result has been delivered; the server takes the next call.
NextCall ==
    /\ pc = "done"
    /\ pc' = "idle"
    /\ op' = ""
    /\ arg' = NoArg
    /\ loc' = NoLoc
    /\ log' = <<>>
    /\ outcome' = None
    /\ opState' = "gone"
    /\ UNCHANGED <<token, stack_manager, env>>

(***************************************************************************)
(* main.py: get_app, get_database, and the deletes that start with them.   *)
(***************************************************************************)
\* get_app(app_handle, account_handle) / get_database(...), and
\* delete_app / delete_database, which resolve the handle the same way.
Call_get ==
    \E o \in {"get", "delete_tool"}, kind \in {"apps", "databases"},
       h \in Handles, a \in {"", "prod"} :
       /\ Start(o, [NoArg EXCEPT !.kind = kind, !.handle = h, !.account = a], "get_list", NoLoc)
       /\ UNCHANGED opState

\* The handle is resolved: get_* returns the resource's dump; delete_* goes
\* on to manager.delete(resource.id); get_service, scale_service and
\* create_vhost go on to the services of the app.
Resolved(ent, l) ==
    IF op = "get" THEN End(Returned(ent), l)
    ELSE IF op = "delete_tool" THEN Goto(delete_method(arg.kind), [NoLoc EXCEPT !.id = ent.id])
    ELSE Goto("list_by_app", [NoLoc EXCEPT !.id = ent.id])

\* apps = await app_manager.list() and the handle filter.  A call that ends
\* here ends with its locals apps (items) and matches.
get_list ==
    /\ pc = "get_list"
    /\ LET OnOk(r) ==
            LET l == ResourceManager_list(r)
                d == get_matches(arg.kind, l.items, arg.handle, arg.account)
                here == IF op = "get" THEN [loc EXCEPT !.items = l.items] ELSE loc
            IN  IF ~l.ok THEN Raise(l.err)
                ELSE CASE d.kind = "raise" -> End(Raised(d.err), here)
                       [] d.kind = "return" -> Resolved(d.ent, here)
                       [] OTHER -> Goto("get_account", [loc EXCEPT !.matches = d.matches])
       IN  Send(GET(arg.kind, 0, "", TRUE), ListResponses(arg.kind), OnOk)
    /\ UNCHANGED <<op, arg, stack_manager, env>>

\* account = await account_manager.get(account_handle) and the account
\* filter.  The call ends with its locals matches and account.
get_account ==
    /\ pc = "get_account"
    /\ LET OnOk(r) ==
            LET l == AccountManager_list(r)
                d == get_in_account(arg.kind, loc.matches, l.items, arg.handle, arg.account)
                here == [loc EXCEPT !.account = get(l.items, arg.account)]
            IN  IF d.kind = "raise" THEN End(Raised(d.err), here) ELSE Resolved(d.ent, here)
       IN  Send(GET("accounts", 0, "", FALSE), ListResponses("accounts"), OnOk)
    /\ UNCHANGED <<op, arg, stack_manager, env>>

(***************************************************************************)
(* models/*.py: delete.                                                    *)
(***************************************************************************)
\* manager.delete(id) called on a manager: app_manager.delete,
\* database_manager.delete, service_manager.delete, vhost_manager.delete_vhost
\* (the delete_vhost tool is this call and nothing else).
Call_delete ==
    \E kind \in {"apps", "databases", "services", "vhosts"}, id \in Ids :
       /\ Start("delete", [NoArg EXCEPT !.kind = kind, !.id = id], delete_method(kind),
                [NoLoc EXCEPT !.id = id])
       /\ UNCHANGED opState

\* resource = await self.get_by_id(id); raise when it is None.
delete_lookup ==
    /\ pc = "delete_lookup"
    /\ LET OnOk(r) ==
            LET l == ResourceManager_list(r) IN
            IF ~l.ok THEN Raise(l.err)
            ELSE IF get_by_id(l.items, loc.id) = NoEnt THEN Raise(not_found(arg.kind, loc.id))
            ELSE Goto("delete_post", loc)
       IN  Send(GET(arg.kind, 0, "", TRUE), ListResponses(arg.kind), OnOk)
    /\ UNCHANGED <<op, arg, stack_manager, env>>

\* POST {"type": "deprovision"} under the resource's operations, then wait.
delete_post ==
    /\ pc = "delete_post"
    /\ LET OnOk(r) == Await(r.id, "done", loc)
       IN  Send(POST(arg.kind, loc.id, "operations", {F("type", "deprovision")}),
                OperationResponses, OnOk)
    /\ UNCHANGED <<op, arg, stack_manager, env>>

\* ResourceManager.delete: self.api_client.delete(f"{resource_url}/{resource_id}").
delete_raw ==
    /\ pc = "delete_raw"
    /\ LET OnOk(r) == Return(NoEnt)
       IN  Send(DELETE(arg.kind, loc.id), DocResponses, OnOk)
    /\ UNCHANGED <<op, arg, stack_manager, env>>

(***************************************************************************)
(* models/*.py: create.                                                    *)
(***************************************************************************)
\* A create comes in: its required-field checks, before any request.
Create(kind, a, first) ==
    LET e == required(kind, a) IN
    /\ pc = "idle"
    /\ op' = "create"
    /\ arg' = [a EXCEPT !.kind = kind]
    /\ loc' = NoLoc
    /\ log' = <<>>
    /\ IF e # NoErr
       THEN pc' = "done" /\ outcome' = Raised(e)
       ELSE pc' = first /\ outcome' = None
    /\ UNCHANGED <<opState, token, env>>

\* AppManager.create(handle, account_id, docker_image)
AppManager_create ==
    /\ \E h \in {"web", ""}, account_id \in Ids \cup {0}, image \in Images \cup {""} :
          Create("apps", [NoArg EXCEPT !.handle = h, !.id = account_id, !.image = image],
                 "create_post")
    /\ UNCHANGED stack_manager

\* DatabaseManager.create(data)
DatabaseManager_create ==
    /\ \E h \in {"web", "", NoKey}, account_id \in {1, 0, -1}, image_id \in Ids \cup {0, -1} :
          Create("databases", [NoArg EXCEPT !.handle = h, !.id = account_id, !.image_id = image_id],
                 "create_images")
    /\ UNCHANGED stack_manager

\* VhostManager.create(data)
VhostManager_create ==
    /\ \E service_id \in Ids \cup {0, -1} :
          Create("vhosts", [NoArg EXCEPT !.id = service_id], "create_post")
    /\ UNCHANGED stack_manager

\* AccountManager.create(data); past the checks it makes itself a
\* StackManager when it has none.
AccountManager_create ==
    \E h \in {"prod", "", NoKey}, stack_id \in Ids \cup {0, -1} :
       LET a == [NoArg EXCEPT !.handle = h, !.id = stack_id] IN
       /\ Create("accounts", a, "create_stack")
       /\ stack_manager' = ensure_stack_manager(stack_manager, required("accounts", a))

\* DatabaseManager.create: images = await self.list_available_types() and
\* the choice of the image.
create_images ==
    /\ pc = "create_images"
    /\ LET OnOk(r) ==
            LET l == ResourceManager_list(r)
                i == select_image(l.items, arg.image_id)
                here == [loc EXCEPT !.items = l.items]
            IN  IF ~l.ok THEN Raise(l.err)
                ELSE IF i.err # NoErr THEN End(Raised(i.err), here)
                ELSE Goto("create_post", [here EXCEPT !.type = i.type])
       IN  Send(GET("database_images", 0, "", FALSE), ImageResponses, OnOk)
    /\ UNCHANGED <<op, arg, stack_manager, env>>

\* AccountManager.create: stack = await self.stack_manager.get_by_id(stack_id).
create_stack ==
    /\ pc = "create_stack"
    /\ LET OnOk(r) ==
            LET l == ResourceManager_list(r)
                stack == get_by_id(l.items, data.id)
            IN  IF ~l.ok THEN Raise(l.err)
                ELSE IF stack = NoEnt
                THEN End(Raised(Err("Stack not found", "", data.id)), [loc EXCEPT !.items = l.items])
                ELSE Goto("create_org", [loc EXCEPT !.ent = stack, !.type = account_type(stack)])
       IN  Send(GET("stacks", 0, "", TRUE), ListResponses("stacks"), OnOk)
    /\ UNCHANGED <<op, arg, stack_manager, env>>

\* AccountManager.create: self.api_client.organization_id().  The
\* organizations of the response are kept (listed) until the POST.
create_org ==
    /\ pc = "create_org"
    /\ LET OnOk(r) ==
            LET o == organization_id(r)
                here == [loc EXCEPT !.listed = r.items]
            IN  IF o.err # NoErr THEN End(Raised(o.err), here)
                ELSE Goto("create_post", [here EXCEPT !.org = o.id])
       IN  Send(GET("auth/organizations", 0, "", FALSE), OrganizationResponses, OnOk)
    /\ UNCHANGED <<op, arg, stack_manager, env>>

\* The POST of the new resource, hydrated from the response.
create_post ==
    /\ pc = "create_post"
    /\ LET rq == create_request(data.kind, data, loc)
           OnOk(r) ==
              LET parent == IF data.kind = "accounts" THEN loc.ent.id ELSE data.id
                  new == Ent(r.id, data.handle, parent, "")
                  then == after_post(data.kind, data)
                  \* the listings of the images and of the organizations are
                  \* not used past this point
                  created == [loc EXCEPT !.ent = new, !.items = <<>>, !.listed = <<>>]
              IN  IF then = "done" THEN End(Returned(new), created)
                  ELSE Goto(then, created)
       IN  Send(POST(rq.coll, rq.id, rq.sub, rq.body), DocResponses, OnOk)
    /\ UNCHANGED <<op, arg, stack_manager, env>>

\* AppManager.configure(app.id, env): POST the operation, wait for it.
create_configure ==
    /\ pc = "create_configure"
    /\ LET OnOk(r) == Await(r.id, "create_deploy", loc)
       IN  Send(POST("apps", loc.ent.id, "operations",
                     {F("type", "configure")} \cup app_env(arg.image)),
                OperationResponses, OnOk)
    /\ UNCHANGED <<op, arg, stack_manager, env>>

\* AppManager.deploy(app.id): POST the operation, wait for it; then return app.
create_deploy ==
    /\ pc = "create_deploy"
    /\ LET OnOk(r) == Await(r.id, "done", loc)
       IN  Send(POST("apps", loc.ent.id, "operations", {F("type", "deploy")}),
                OperationResponses, OnOk)
    /\ UNCHANGED <<op, arg, stack_manager, env>>

\* DatabaseManager.create, VhostManager.create: POST {"type": "provision"},
\* wait for it; then return the resource.
create_provision ==
    /\ pc = "create_provision"
    /\ LET under == provision_under(data.kind, loc, data)
           OnOk(r) == Await(r.id, "done", loc)
       IN  Send(POST(under.coll, under.id, "operations", {F("type", "provision")}),
                OperationResponses, OnOk)
    /\ UNCHANGED <<op, arg, stack_manager, env>>

(***************************************************************************)
(* models/base.py, models/account.py: list, get, get_by_id.                *)
(***************************************************************************)
\* manager.list(), manager.get(identifier) or manager.get_by_id(id) is called.
Call_manager ==
    \E o \in {"manager_list", "manager_get", "manager_get_by_id"},
       kind \in Managers \cup Listed_only :
       \E h \in Names(kind), id \in Ids :
          /\ kind \in Listed_only => o = "manager_list"
          /\ Start(o,
                   [NoArg EXCEPT !.kind = kind,
                                 !.handle = IF o = "manager_get" THEN h ELSE "",
                                 !.id = IF o = "manager_get_by_id" THEN id ELSE 0],
                   IF o = "manager_get_by_id" THEN get_by_id_method(kind) ELSE "manager_list",
                   NoLoc)
          /\ UNCHANGED opState

\* items = await self.list(), and the scan of get / get_by_id over it.  The
\* call ends with the response's items (items) and the list list() made of
\* them (listed).
manager_list ==
    /\ pc = "manager_list"
    /\ LET OnOk(r) ==
            LET l == list(arg.kind, r)
                here == [loc EXCEPT !.items = r.items, !.listed = l.items]
            IN  IF ~l.ok THEN End(Raised(l.err), here)
                ELSE CASE op = "manager_list" -> End(Returned(NoEnt), here)
                       [] op = "manager_get" -> End(Returned(get(l.items, arg.handle)), here)
                       [] OTHER -> End(Returned(get_by_id(l.items, arg.id)), here)
       IN  Send(list_request(arg.kind), ListResponses(arg.kind), OnOk)
    /\ UNCHANGED <<op, arg, stack_manager, env>>

\* AccountManager.get_by_id: GET /accounts/{id} and hydrate it; on any
\* exception (the token's, the HTTP error) fall back to the list scan.
AccountManager_get_by_id ==
    /\ pc = "AccountManager_get_by_id"
    /\ LET t == get_token IN
       /\ token' = t.memo
       /\ IF ~t.ok THEN Goto("manager_list", loc) /\ UNCHANGED log
          ELSE \E r \in DocResponses :
                 /\ log' = Append(log, [GET("accounts", arg.id, "", FALSE)
                                           EXCEPT !.resp = Seen(r), !.rid = r.id])
                 /\ IF r.code # 200 THEN Goto("manager_list", loc)
                    ELSE Return(Ent(r.id, "", 0, ""))
    /\ UNCHANGED <<op, arg, stack_manager, env>>

(***************************************************************************)
(* main.py: get_vhost, get_accounts_by_stack.                              *)
(***************************************************************************)
\* get_vhost(vhost_id): vhost = await vhost_manager.get(vhost_id).
Call_get_vhost ==
    \E id \in Ids :
       /\ Start("get_vhost", [NoArg EXCEPT !.kind = "vhosts", !.id = id], "get_vhost", NoLoc)
       /\ UNCHANGED opState

\* VhostManager.get is ResourceManager.get: list, then compare each item's
\* name field with the identifier.  The call ends with the listed vhosts.
get_vhost ==
    /\ pc = "get_vhost"
    /\ LET OnOk(r) ==
            LET l == ResourceManager_list(r)
                e == getattr_name_field(arg.kind, l.items)
                here == [loc EXCEPT !.listed = l.items]
            IN  IF ~l.ok THEN Raise(l.err)
                ELSE IF e # NoErr THEN End(Raised(e), here)
                ELSE End(Returned(NoEnt), here)
       IN  Send(list_request(arg.kind), ListResponses(arg.kind), OnOk)
    /\ UNCHANGED <<op, arg, stack_manager, env>>

\* get_accounts_by_stack(stack_name)
Call_get_accounts_by_stack ==
    \E name \in StackNames :
       /\ Start("get_accounts_by_stack", [NoArg EXCEPT !.kind = "stacks", !.handle = name],
                "get_accounts_by_stack", NoLoc)
       /\ UNCHANGED opState

\* stack = await stack_manager.get(stack_name); a call that ends here ends
\* with the listed stacks (matches).
get_accounts_by_stack ==
    /\ pc = "get_accounts_by_stack"
    /\ LET OnOk(r) ==
            LET l == ResourceManager_list(r)
                stack == get(l.items, arg.handle)
            IN  IF ~l.ok THEN Raise(l.err)
                ELSE IF stack = NoEnt
                THEN End(Raised(Err("Stack not found.", arg.handle, 0)),
                         [loc EXCEPT !.matches = l.items])
                ELSE Goto("get_by_stack_id", [loc EXCEPT !.ent = stack])
       IN  Send(list_request("stacks"), ListResponses("stacks"), OnOk)
    /\ UNCHANGED <<op, arg, stack_manager, env>>

\* accounts = await account_manager.get_by_stack_id(stack.id).  The call
\* ends with the accounts listed (items) and those returned (listed).
AccountManager_get_by_stack_id ==
    /\ pc = "get_by_stack_id"
    /\ LET OnOk(r) ==
            LET l == AccountManager_list(r) IN
            End(Returned(NoEnt),
                [loc EXCEPT !.items = l.items, !.listed = get_by_stack_id(l.items, loc.ent.id)])
       IN  Send(list_request("accounts"),
                ErrorResponses \cup {Resp(200, FALSE, <<>>, 0)}
                \cup {Resp(200, TRUE, s, 0) : s \in AccountsOfStacks}, OnOk)
    /\ UNCHANGED <<op, arg, stack_manager, env>>

(***************************************************************************)
(* main.py: create_account.                                                *)
(***************************************************************************)
\* create_account(account_name, stack_name)
Call_create_account ==
    \E name \in {"prod", ""}, stack_name \in StackNames :
       /\ Start("create_account",
                [NoArg EXCEPT !.kind = "accounts", !.handle = name, !.account = stack_name],
                "create_account", NoLoc)
       /\ UNCHANGED opState

\* stack = await stack_manager.get(stack_name), then the start of
\* account_manager.create(data): its checks, and its StackManager.
create_account ==
    /\ pc = "create_account"
    /\ LET t == get_token IN
       /\ token' = t.memo
       /\ IF ~t.ok THEN AuthFailed(t) /\ UNCHANGED <<log, stack_manager>>
          ELSE \E r \in ListResponses("stacks") :
                 LET l == ResourceManager_list(r)
                     stack == get(l.items, arg.account)
                     e == AccountManager_required([data EXCEPT !.id = stack.id])
                 IN  /\ log' = Append(log, [list_request("stacks")
                                               EXCEPT !.resp = Seen(r), !.rid = r.id])
                                \o (IF r.code # 200 THEN rollback(op, arg, loc) ELSE <<>>)
                     /\ IF r.code # 200
                        THEN Raise(Err("HTTPError", "", r.code)) /\ UNCHANGED stack_manager
                        ELSE IF ~l.ok THEN Raise(l.err) /\ UNCHANGED stack_manager
                        ELSE IF stack = NoEnt
                        THEN Raise(Err("Stack not found.", arg.account, 0))
                             /\ UNCHANGED stack_manager
                        ELSE /\ stack_manager' = ensure_stack_manager(stack_manager, e)
                             /\ IF e # NoErr THEN Raise(e)
                                ELSE Goto("create_stack", [loc EXCEPT !.id = stack.id])
    /\ UNCHANGED <<op, arg, env>>

(***************************************************************************)
(* models/*.py: a payload is validated and a computed field of the entity  *)
(* is read.                                                                *)
(***************************************************************************)
\* entity = Model.model_validate(payload); entity.<field>.  The call ends
\* with the payload as it now is, the entity's links and the field's value.
model_validate_and_read ==
    /\ pc = "idle"
    /\ \E model \in {"App", "Service", "Vhost", "Account", "Database"} :
       \E payload \in Payloads(model), field \in Fields(model) :
          LET entity == model_validate(payload)
              value == computed_field(model, field, entity.links)
          IN  /\ op' = "model_validate"
              /\ arg' = [NoArg EXCEPT !.kind = model, !.handle = field, !.payload = payload]
              /\ loc' = [NoLoc EXCEPT !.payload = entity.payload, !.links = entity.links,
                                      !.derived = value]
              /\ log' = <<>>
              /\ pc' = "done"
              /\ outcome' = IF value.kind = "raise" THEN Raised(value.err) ELSE Returned(NoEnt)
              /\ UNCHANGED <<opState, token, stack_manager, env>>

(***************************************************************************)
(* main.py: get_service, scale_service, create_vhost; models/service.py:   *)
(* scale.                                                                  *)
(***************************************************************************)
\* get_service, scale_service or create_vhost is called; scale_service
\* checks its parameters first.
Call_service_tool ==
    \E o \in {"get_service", "scale_service", "create_vhost", "list_services",
               "list_service_vhosts"},
       a \in {"", "prod"},
       count \in {-1, 0, 2}, memory \in {-1, 512} :
       LET scaling == o = "scale_service"
           e == IF scaling THEN scale_service_check(count, memory) ELSE NoErr
       IN  /\ pc = "idle"
           /\ op' = o
           /\ arg' = [NoArg EXCEPT !.kind = "apps", !.handle = "web", !.account = a,
                                   !.service = IF o = "list_services" THEN "" ELSE "web",
                                   !.count = IF scaling THEN count ELSE -1,
                                   !.memory = IF scaling THEN memory ELSE -1]
           /\ loc' = NoLoc
           /\ log' = <<>>
           /\ IF e # NoErr
              THEN pc' = "done" /\ outcome' = Raised(e)
              ELSE pc' = "get_list" /\ outcome' = None
           /\ UNCHANGED <<opState, token, stack_manager, env>>

\* service_manager.list_by_app(app.id) and the choice of the service by its
\* handle: get_by_handle_and_app, or create_vhost's service_matches[0].
list_by_app ==
    /\ pc = "list_by_app"
    /\ LET OnOk(r) ==
            LET l == ResourceManager_list(r)
                service == get_by_handle_and_app(l.items, arg.service)
                here == IF op = "get_service" THEN [loc EXCEPT !.items = l.items] ELSE loc
                chosen == [NoLoc EXCEPT !.id = service.id]
            IN  IF ~l.ok THEN Raise(l.err)
                ELSE IF op \in {"list_services", "get_services"}
                THEN End(Returned(NoEnt), [loc EXCEPT !.listed = l.items])
                ELSE IF service = NoEnt
                THEN End(Raised(Err("No service with handle found in app " \o arg.handle,
                                    arg.service, 0)), here)
                ELSE CASE op = "get_service" -> End(Returned(service), here)
                       [] op = "scale_service" -> Goto("scale_post", chosen)
                       [] op = "list_service_vhosts" -> Goto("list_by_service", chosen)
                       [] OTHER ->
                            IF VhostManager_required([NoArg EXCEPT !.id = service.id]) # NoErr
                            THEN Raise(VhostManager_required([NoArg EXCEPT !.id = service.id]))
                            ELSE Goto("create_post", chosen)
       IN  Send(GET("apps", loc.id, "services", TRUE), ListResponses("services"), OnOk)
    /\ UNCHANGED <<op, arg, stack_manager, env>>

\* list_service_vhosts: vhosts = await vhost_manager.list_by_service(service.id).
\* The call ends with the vhosts listed.
list_by_service ==
    /\ pc = "list_by_service"
    /\ LET OnOk(r) ==
            LET l == ResourceManager_list(r) IN
            IF ~l.ok THEN Raise(l.err)
            ELSE End(Returned(NoEnt), [loc EXCEPT !.listed = l.items])
       IN  Send(GET("services", loc.id, "vhosts", TRUE), ListResponses("vhosts"), OnOk)
    /\ UNCHANGED <<op, arg, stack_manager, env>>

\* service_manager.scale(service_id, container_count, container_memory_limit_mb)
Call_scale ==
    \E id \in Ids, count \in {-1, 0, 2}, memory \in {-1, 512} :
       /\ Start("scale", [NoArg EXCEPT !.kind = "services", !.id = id,
                                       !.count = count, !.memory = memory],
                "scale_post", [NoLoc EXCEPT !.id = id])
       /\ UNCHANGED opState

\* ServiceManager.scale: POST the operation, wait for it.
scale_post ==
    /\ pc = "scale_post"
    /\ LET OnOk(r) == Await(r.id, "scale_refresh", loc)
       IN  Send(POST("services", loc.id, "operations", scale_payload(arg.count, arg.memory)),
                OperationResponses, OnOk)
    /\ UNCHANGED <<op, arg, stack_manager, env>>

\* ServiceManager.scale: refreshed_service = await self.get_by_id(service_id).
scale_refresh ==
    /\ pc = "scale_refresh"
    /\ LET OnOk(r) ==
            LET l == ResourceManager_list(r)
                refreshed_service == get_by_id(l.items, loc.id)
            IN  IF ~l.ok THEN Raise(l.err)
                ELSE IF refreshed_service = NoEnt THEN Raise(Err("Service not found", "", loc.id))
                ELSE Return(refreshed_service)
       IN  Send(GET("services", 0, "", TRUE), ListResponses("services"), OnOk)
    /\ UNCHANGED <<op, arg, stack_manager, env>>

(***************************************************************************)
(* main.py: create_app.                                                    *)
(***************************************************************************)
Call_create_app ==
    \E h \in {"web"}, a \in {"prod"}, image \in Images \cup {""} :
       /\ Start("create_app", [NoArg EXCEPT !.kind = "apps", !.handle = h, !.account = a,
                                            !.image = image],
                "create_app", NoLoc)
       /\ UNCHANGED opState

\* account = await account_manager.get(account_handle), then
\* app_manager.create(data).
create_app ==
    /\ pc = "create_app"
    /\ LET OnOk(r) ==
            LET l == AccountManager_list(r)
                account == get(l.items, arg.account)
                here == [loc EXCEPT !.account = account]
                e == bind(create_app_arguments, AppManager_create_parameters)
            IN  IF account = NoEnt
                THEN End(Raised(Err("Account not found", arg.account, 0)), here)
                ELSE IF e # NoErr THEN End(Raised(e), here)
                ELSE Goto("create_post", here)
       IN  Send(GET("accounts", 0, "", FALSE), ListResponses("accounts"), OnOk)
    /\ UNCHANGED <<op, arg, stack_manager, env>>

Next ==
    \/ Call_wait_for_operation
    \/ Poll
    \/ PlatformStep
    \/ WriteTokensFile
    \/ NextCall
    \/ Call_get
    \/ get_list
    \/ get_account
    \/ Call_delete
    \/ delete_lookup
    \/ delete_post
    \/ delete_raw
    \/ AppManager_create
    \/ DatabaseManager_create
    \/ VhostManager_create
    \/ AccountManager_create
    \/ create_images
    \/ create_stack
    \/ create_org
    \/ create_post
    \/ create_configure
    \/ create_deploy
    \/ create_provision
    \/ Call_manager
    \/ manager_list
    \/ AccountManager_get_by_id
    \/ Call_service_tool
    \/ list_by_app
    \/ Call_scale
    \/ scale_post
    \/ scale_refresh
    \/ Call_create_app
    \/ create_app
    \/ Call_get_vhost
    \/ get_vhost
    \/ Call_get_accounts_by_stack
    \/ get_accounts_by_stack
    \/ AccountManager_get_by_stack_id
    \/ model_validate_and_read
    \/ list_by_service
    \/ Call_create_account
    \/ create_account

Spec == Init /\ [][Next]_vars

(***************************************************************************)
(* The poller on its own, with the loop's progress: the loop is the only   *)
(* thing the calling task runs, and every request it sends is answered.    *)
(***************************************************************************)
NextPoller ==
    \/ Call_wait_for_operation
    \/ Poll
    \/ PlatformStep
    \/ WriteTokensFile
    \/ NextCall

SpecPoller == Init /\ [][NextPoller]_vars /\ WF_vars(Poll)

(***************************************************************************)
(* The poller's requests while the user logs in again, which puts another  *)
(* token into the file than the one the client may have memoized.          *)
(***************************************************************************)
Login ==
    /\ pc = "idle"
    /\ tokens_json # "filetok2"
    /\ tokens_json' = "filetok2"
    /\ UNCHANGED <<pc, op, arg, loc, log, outcome, opState, token, stack_manager, APTIBLE_TOKEN,
                   app_service_manager>>

NextToken ==
    \/ NextPoller
    \/ Login

SpecToken == Init /\ [][NextToken]_vars

(***************************************************************************)
(* An AppManager of its own, as a caller other than main.py constructs it: *)
(* no service manager until one is assigned.                               *)
(***************************************************************************)
InitAppManager == Constructed /\ app_service_manager = "unset"

\* app_manager.service_manager = None, or = a ServiceManager.
Inject ==
    /\ pc = "idle"
    /\ \E v \in {"None", "set"} \ {app_service_manager} : app_service_manager' = v
    /\ UNCHANGED <<pc, op, arg, loc, log, outcome, opState, token, stack_manager, APTIBLE_TOKEN,
                   tokens_json>>

\* app_manager.get_services(app_id)
Call_get_services ==
    /\ pc = "idle"
    /\ \E app_id \in Ids :
          LET e == get_services(app_service_manager) IN
          /\ op' = "get_services"
          /\ arg' = [NoArg EXCEPT !.kind = "apps", !.id = app_id]
          /\ loc' = [NoLoc EXCEPT !.id = app_id]
          /\ log' = <<>>
          /\ IF e # NoErr
             THEN pc' = "done" /\ outcome' = Raised(e)
             ELSE pc' = "list_by_app" /\ outcome' = None
    /\ UNCHANGED <<opState, token, stack_manager, env>>

NextAppManager ==
    \/ Inject
    \/ Call_get_services
    \/ list_by_app
    \/ WriteTokensFile
    \/ NextCall

SpecAppManager == InitAppManager /\ [][NextAppManager]_vars

(***************************************************************************)
(* Properties.                                                             *)
(***************************************************************************)
SeenInProgress == {"running", "unknown"}
Waiting == pc = "poll"
LastIsPoll == log # <<>> /\ IsPoll(Last(log))

\* C1: wait_for_operation returns normally only after a fetch that reported
\* "succeeded" or failed with 404: while the loop is still running its latest
\* fetch saw an in-progress or missing status (so it never fetches again
\* after "succeeded"), and whenever a wait has ended without raising, its
\* latest fetch saw "succeeded" or 404.
C1_ReturnsOnlyOnSucceededOr404 ==
    /\ \A i \in 1..Len(log) :
          IsPoll(log[i]) =>
             IF i = Len(log) /\ Waiting THEN log[i].resp \in SeenInProgress
             ELSE IF i = Len(log) /\ outcome.kind = "raised" THEN TRUE
             ELSE log[i].resp \in {"succeeded", "http404"}
    /\ (op = "wait_for_operation" /\ outcome.kind = "returned") => LastIsPoll

C1_Witness ==
    /\ op = "wait_for_operation"
    /\ outcome.kind = "returned"
    /\ Len(log) = 1
    /\ log[1].n = 2
    /\ log[1].resp = "succeeded"

\* C2: a fetch that reports "failed" ends the call with a raised error (no
\* normal return, no further poll) whose text carries the platform's message
\* when the response has one and "No error message" when it has none.
C2_FailedRaisesWithMessage ==
    \A i \in 1..Len(log) :
       (IsPoll(log[i]) /\ log[i].resp = "failed") =>
          /\ i = Len(log)
          /\ pc = "done"
          /\ outcome.kind = "raised"
          /\ outcome.err.msg = "Operation failed"
          /\ outcome.err.n = log[i].id
          /\ outcome.err.s = (IF log[i].msg = NoKey THEN "No error message" ELSE log[i].msg)

C2_Witness ==
    /\ LastIsPoll
    /\ Last(log).resp = "failed"
    /\ Last(log).msg = "boom"
    /\ outcome.kind = "raised"
    /\ outcome.err.s = "boom"

\* C3: the poller has no fetch limit and no timeout: a fetch that succeeds
\* with a non-terminal status always leaves the loop running, and once the
\* platform's operation is succeeded, failed or gone the wait ends.
C3_PollsUntilTerminal ==
    /\ [][(Waiting /\ log' # log /\ Last(log').resp \in SeenInProgress) => Waiting']_vars
    /\ [](Waiting => ENABLED Poll)
    /\ ((Waiting /\ opState \in Terminal) ~> ~Waiting)

C3_Witness ==
    /\ Waiting
    /\ LastIsPoll
    /\ Last(log).n = MaxPolls
    /\ Last(log).resp \in SeenInProgress
    /\ opState \in Terminal

\* C4: a fetch that fails with HTTP 404 ends the wait as a success, and a
\* fetch that fails with any other HTTP status raises that error to the
\* caller at once, with no further poll.
C4_NotFoundIsSuccessOtherErrorsPropagate ==
    \A i \in 1..Len(log) :
       IsPoll(log[i]) =>
          /\ log[i].resp = "http404" =>
                /\ ~(i = Len(log) /\ Waiting)
                /\ i = Len(log) => outcome.kind # "raised"
                /\ (i = Len(log) /\ op = "wait_for_operation") => outcome.kind = "returned"
          /\ log[i].resp \in {"http" \o ToString(c) : c \in OtherCodes} =>
                /\ i = Len(log)
                /\ pc = "done"
                /\ outcome \in {Raised(Err("HTTPError", "", c)) : c \in OtherCodes}

C4_Witness ==
    /\ op = "wait_for_operation"
    /\ Len(log) = 1
    /\ log[1].n = 2
    /\ log[1].resp = "http404"
    /\ outcome.kind = "returned"

(***************************************************************************)
(* Deletes.                                                                *)
(***************************************************************************)
Requests(m) == {i \in 1..Len(log) : log[i].m = m}
IsDeprovision(e, kind, id) ==
    /\ e.m = "POST" /\ e.coll = kind /\ e.id = id /\ e.sub = "operations"
    /\ e.body = {F("type", "deprovision")}

\* C5: deleting an app, database, service or vhost by id never sends an HTTP
\* DELETE; a delete that returns has looked the resource up, has then
\* POSTed a "deprovision" operation under that resource's operations and
\* has waited for it; a delete that raises not-found has POSTed nothing.
C5_DeleteIsDeprovision ==
    op \in {"delete", "delete_tool"} =>
       /\ Requests("DELETE") = {}
       /\ (outcome.kind = "returned" /\ loc.id # 0) =>
             \E i \in 2..Len(log) - 1 :
                /\ log[i - 1].m = "GET" /\ log[i - 1].coll = arg.kind
                /\ IsDeprovision(log[i], arg.kind, loc.id)
                /\ IsPoll(log[i + 1]) /\ i + 1 = Len(log)
       /\ (outcome.kind = "raised" /\ outcome.err = not_found(arg.kind, loc.id)) =>
             Requests("POST") = {}

(***************************************************************************)
(* Handle resolution.                                                      *)
(***************************************************************************)
Hits(items, handle) == SelectSeq(items, LAMBDA e : e.handle = handle)
NoSuchHandle == Raised(Err("No " \o Singular(arg.kind) \o " with handle", arg.handle, 0))
Ambiguous ==
    Raised(Err("Multiple " \o arg.kind \o " found with handle. Please provide an account handle.",
               arg.handle, 0))
AccountNotFound == Raised(Err("Account not found", arg.account, 0))
NotInAccount ==
    Raised(Err("No " \o Singular(arg.kind) \o " with handle in account " \o arg.account,
               arg.handle, 0))

\* The get_app / get_database call is over and its listing came back whole.
GotList == op = "get" /\ pc = "done" /\ Len(log) = 1 /\ log[1].resp = "http200"
\* ... and so did the listing of the accounts (with or without "_embedded").
GotAccounts == op = "get" /\ pc = "done" /\ Len(log) = 2 /\ outcome.err.msg # "HTTPError"

\* C9: get_app and get_database without an account handle: no listed
\* resource with the handle raises an error naming the handle; exactly one
\* returns it; two or more raise the provide-an-account-handle error and
\* return nothing.
C9_UnscopedLookup ==
    (GotList /\ ~Truthy(arg.account)) =>
       LET hits == Hits(loc.items, arg.handle) IN
       /\ Len(hits) = 0 => outcome = NoSuchHandle
       /\ Len(hits) = 1 => outcome = Returned(hits[1])
       /\ Len(hits) >= 2 => outcome = Ambiguous

C9_Witness ==
    /\ GotList /\ ~Truthy(arg.account)
    /\ Len(Hits(loc.items, arg.handle)) = 2
    /\ outcome = Ambiguous

\* C10 as claimed: get_app and get_database with an account handle end in
\* account-not-found, or in a resource with the handle in the resolved
\* account, or in not-found-in-account.
C10_ScopedLookupAsClaimed ==
    (op = "get" /\ pc = "done" /\ Truthy(arg.account)
       /\ outcome.err.msg \notin {"HTTPError", "KeyError"} /\ Truthy(token)) =>
       \/ outcome = AccountNotFound
       \/ outcome = NotInAccount
       \/ outcome.kind = "returned" /\ outcome.val.handle = arg.handle

\* C10, amended: get_app and get_database with an account handle raise the
\* no-such-handle error when no listed resource has the handle (the account
\* is not looked at); when some resource has it, an account that does not
\* resolve raises account-not-found, a resolved account none of them belongs
\* to raises not-found-in-account (also when there is exactly one such
\* resource), and otherwise the result is the first of them whose
\* account_id is the resolved account's id.
C10_ScopedLookup ==
    /\ (GotList /\ Truthy(arg.account)) =>
          (Hits(loc.items, arg.handle) = <<>> /\ outcome = NoSuchHandle)
    /\ (GotAccounts /\ Truthy(arg.account)) =>
          LET mine == SelectSeq(loc.matches, LAMBDA e : e.parent = loc.account.id) IN
          /\ loc.matches # <<>>
          /\ \A i \in 1..Len(loc.matches) : loc.matches[i].handle = arg.handle
          /\ loc.account # NoEnt => loc.account.handle = arg.account
          /\ IF loc.account = NoEnt THEN outcome = AccountNotFound
             ELSE IF mine = <<>> THEN outcome = NotInAccount
             ELSE /\ outcome = Returned(mine[1])
                  /\ outcome.val.handle = arg.handle
                  /\ outcome.val.parent = loc.account.id

C10_Witness ==
    /\ GotAccounts /\ Truthy(arg.account)
    /\ Len(loc.matches) = 1
    /\ loc.account # NoEnt
    /\ loc.matches[1].parent # loc.account.id
    /\ outcome = NotInAccount

(***************************************************************************)
(* Creates.                                                                *)
(***************************************************************************)
Creating(kinds) == op = "create" /\ arg.kind \in kinds
Succeeded(e) == IsPoll(e) /\ e.resp \in {"succeeded", "http404"}
IsOperation(e, kind, id, body) ==
    /\ e.m = "POST" /\ e.coll = kind /\ e.id = id /\ e.sub = "operations"
    /\ e.body = body
IsCreation(e, parent, id, kind) ==
    e.m = "POST" /\ e.coll = parent /\ e.id = id /\ e.sub = kind

C7_CreateThenProvisionThenWait ==
    Creating({"databases", "vhosts"}) =>
       LET k == IF arg.kind = "databases" THEN 2 ELSE 1
           parent == IF arg.kind = "databases" THEN "accounts" ELSE "services"
       IN  /\ Len(log) <= k + 2
           /\ \A i \in 1..Len(log) : (i < k) => log[i].m = "GET"
           /\ Len(log) >= k => IsCreation(log[k], parent, arg.id, arg.kind)
           /\ Len(log) >= k + 1 =>
                 IsOperation(log[k + 1], arg.kind, log[k].rid, {F("type", "provision")})
           /\ Len(log) >= k + 2 =>
                 /\ IsPoll(log[k + 2]) /\ log[k + 2].id = log[k + 1].rid
                 /\ log[k + 2].resp = "failed" => outcome.kind = "raised"
           /\ outcome.kind = "returned" =>
                 /\ Len(log) = k + 2
                 /\ Succeeded(log[k + 2])
                 /\ outcome.val.id = log[k].rid

C7_Witness ==
    /\ Creating({"databases"})
    /\ Len(log) = 4
    /\ log[4].n = MaxPolls
    /\ log[4].resp = "succeeded"
    /\ outcome.kind = "returned"
    /\ log[2].id # log[2].rid

\* The fields the specification requires of a create's data, and those of
\* them the data lacks or holds empty.
RequiredFields(kind) ==
    CASE kind = "accounts" -> {"handle", "stack_id"}
      [] kind = "apps" -> {"handle", "account_id"}
      [] kind = "databases" -> {"handle", "account_id", "image_id"}
      [] kind = "vhosts" -> {"service_id"}
MissingFields(a) ==
    {f \in RequiredFields(a.kind) :
        \/ f = "handle" /\ ~Truthy(a.handle)
        \/ f \in {"stack_id", "account_id", "service_id"} /\ a.id <= 0
        \/ f = "image_id" /\ a.image_id <= 0}

\* C8: a create (Account, App, Database, Vhost) whose data lacks a required
\* field, or holds it empty, has ended with a raised error that names such a
\* field, and has sent no HTTP request.
C8_MissingFieldFailsBeforeAnyRequest ==
    (op = "create" /\ MissingFields(arg) # {}) =>
       /\ pc = "done"
       /\ outcome.kind = "raised"
       /\ outcome.err.s \in MissingFields(arg)
       /\ log = <<>>

(***************************************************************************)
(* list, get, get_by_id on a manager.                                      *)
(***************************************************************************)
IsList(e, kind) == e.m = "GET" /\ e.coll = kind /\ e.id = 0 /\ e.sub = ""
Answered(o) == op = o /\ pc = "done" /\ log # <<>> /\ Last(log).resp \in {"http200", "http200 without _embedded"}

\* C13: get_by_id(id) on a resource manager sends one request, a GET of
\* {collection}/{id} without the listing query, and returns that response
\* hydrated; it does not list the collection.
C13_GetByIdIsDirectGet ==
    (op = "manager_get_by_id" /\ log # <<>>) =>
       /\ Len(log) = 1
       /\ log[1].m = "GET" /\ log[1].coll = arg.kind /\ log[1].id = arg.id
       /\ log[1].sub = "" /\ ~log[1].q
       /\ Answered("manager_get_by_id") => outcome = Returned(Ent(log[1].rid, "", 0, ""))

\* C14: list() on a resource manager whose response has no "_embedded"
\* returns the empty sequence and raises nothing; otherwise it returns the
\* embedded items, one entity each, in the response's order.
C14_ListWithoutEmbeddedIsEmpty ==
    Answered("manager_list") =>
       /\ outcome.kind = "returned"
       /\ loc.listed = (IF Last(log).resp = "http200" THEN loc.items ELSE <<>>)

\* C15: get(identifier) on a resource manager sends exactly one request, the
\* manager's list; of a list that came back it returns the first entity, in
\* the list's order, whose name field equals the identifier, and None when
\* there is none.
C15_GetIsFirstByName ==
    op = "manager_get" =>
       /\ Len(log) <= 1
       /\ pc = "done" => (Len(log) = 1 \/ outcome.kind = "raised")
       /\ log # <<>> => IsList(log[1], arg.kind)
       /\ (Answered("manager_get") /\ outcome.kind = "returned") =>
             LET named == {i \in 1..Len(loc.listed) : loc.listed[i].handle = arg.handle} IN
             IF named = {} THEN outcome.val = NoEnt
             ELSE \E i \in named : /\ outcome.val = loc.listed[i]
                                   /\ \A j \in named : i <= j

C15_Witness ==
    /\ Answered("manager_get")
    /\ arg.kind = "stacks"
    /\ Len(loc.listed) = 2
    /\ loc.listed[1].handle = arg.handle /\ loc.listed[2].handle = arg.handle
    /\ loc.listed[1].org # loc.listed[2].org
    /\ outcome = Returned(loc.listed[1])

(***************************************************************************)
(* Lookups by handle.                                                      *)
(***************************************************************************)
GotServices ==
    /\ op = "get_service" /\ pc = "done" /\ log # <<>>
    /\ Last(log).sub = "services" /\ Last(log).resp = "http200"

\* C11: a lookup by handle (get_app and get_database within an account,
\* get_account, get_service within an app) that finds more than one entity
\* with the handle inside the scope raises an error and returns none of them.
C11_AmbiguityInScopeRaises ==
    /\ (GotAccounts /\ Truthy(arg.account) /\ loc.account # NoEnt
          /\ Len(SelectSeq(loc.matches, LAMBDA e : e.parent = loc.account.id)) >= 2)
          => outcome.kind = "raised"
    /\ (Answered("manager_get") /\ arg.kind = "accounts"
          /\ Len(Hits(loc.listed, arg.handle)) >= 2)
          => outcome.kind = "raised"
    /\ (GotServices /\ Len(Hits(loc.items, arg.service)) >= 2)
          => outcome.kind = "raised"

(***************************************************************************)
(* DatabaseManager.create: the image.                                      *)
(***************************************************************************)
ImagesWithId == Len(SelectSeq(loc.items, LAMBDA img : img.id = arg.image_id))
PostsDatabase ==
    /\ Len(log') = Len(log) + 1
    /\ Last(log').m = "POST" /\ Last(log').sub = "databases"

\* C12: DatabaseManager.create sends the POST of the database only when
\* exactly one listed image has the id image_id; when none has it the call
\* ends with "No database image found", when several have it with "Multiple
\* database images found", and in both cases the listing of the images is
\* the only request sent.
C12_ExactlyOneImage ==
    /\ [](Creating({"databases"}) =>
            /\ pc = "create_post" => ImagesWithId = 1
            /\ (pc = "done" /\ Len(log) = 1 /\ log[1].resp = "http200") =>
                  /\ ImagesWithId # 1
                  /\ ImagesWithId = 0 =>
                        outcome = Raised(Err("No database image found with id", "", arg.image_id))
                  /\ ImagesWithId >= 2 =>
                        outcome = Raised(Err("Multiple database images found with id", "",
                                             arg.image_id)))
    /\ [][(op' = "create" /\ arg'.kind = "databases" /\ PostsDatabase) =>
             (pc = "create_post" /\ ImagesWithId = 1)]_vars

C12_Witness ==
    /\ Creating({"databases"})
    /\ pc = "done"
    /\ Len(log) = 1
    /\ ImagesWithId = 2
    /\ loc.items[1] # loc.items[2]
    /\ outcome.err.msg = "Multiple database images found with id"

(***************************************************************************)
(* Scale.                                                                  *)
(***************************************************************************)
Scaling == op \in {"scale", "scale_service"}
IsScale(e) == e.m = "POST" /\ e.coll = "services" /\ e.sub = "operations"
Keys(body) == {f.k : f \in body}

\* C16: the operation ServiceManager.scale posts has type "scale", has
\* container_count exactly when a count was passed and container_size
\* exactly when a memory limit was passed, each with the value passed, and
\* has no other key.
C16_ScalePayload ==
    Scaling =>
       \A i \in 1..Len(log) :
          IsScale(log[i]) =>
             /\ F("type", "scale") \in log[i].body
             /\ Cardinality(log[i].body) = Cardinality(Keys(log[i].body))
             /\ Keys(log[i].body) \subseteq {"type", "container_count", "container_size"}
             /\ ("container_count" \in Keys(log[i].body)) <=> (arg.count # -1)
             /\ ("container_size" \in Keys(log[i].body)) <=> (arg.memory # -1)
             /\ \A f \in log[i].body :
                   /\ f.k = "container_count" => f = N("container_count", arg.count)
                   /\ f.k = "container_size" => f = N("container_size", arg.memory)

C16_Witness ==
    /\ op = "scale"
    /\ arg.count = 0 /\ arg.memory = -1
    /\ log # <<>>
    /\ log[1].body = {F("type", "scale"), N("container_count", 0)}
    /\ log[1].resp = "http200"

\* C17: scale_service called without container_count and without
\* container_memory_limit_mb has ended with a ValueError and has sent no
\* request and resolved no token; no scale_service call ever posts a scale
\* operation that has neither field.
C17_ScaleServiceNeedsAParameter ==
    op = "scale_service" =>
       /\ (arg.count = -1 /\ arg.memory = -1) =>
             /\ pc = "done"
             /\ outcome.kind = "raised" /\ outcome.err.msg = "ValueError"
             /\ log = <<>>
       /\ \A i \in 1..Len(log) : IsScale(log[i]) => Cardinality(log[i].body) >= 2

C17_Witness ==
    /\ op = "scale_service"
    /\ arg.count = -1 /\ arg.memory = -1
    /\ outcome.kind = "raised"
    /\ token = NoneTok

(***************************************************************************)
(* AccountManager.create: the account's type.                              *)
(***************************************************************************)
PostsAccount ==
    /\ Len(log') = Len(log) + 1
    /\ Last(log').m = "POST" /\ Last(log').coll = "accounts" /\ Last(log').sub = ""

\* C18: AccountManager.create posts the account only after it has found the
\* stack with id stack_id, and posts it with the caller's handle, that
\* stack's id, the organization id it fetched, and type "production" when
\* the stack has an organization_id and "development" when it has none;
\* when no listed stack has the id the call ends with "Stack not found" and
\* the listing of the stacks is the only request sent.
C18_AccountTypeFromStack ==
    /\ [](Creating({"accounts"}) =>
            /\ (pc = "done" /\ Len(log) = 1 /\ log[1].resp = "http200") =>
                  /\ \A i \in 1..Len(loc.items) : loc.items[i].id # arg.id
                  /\ outcome = Raised(Err("Stack not found", "", arg.id))
            /\ Requests("POST") \subseteq {3}
            /\ Len(log) >= 1 => IsList(log[1], "stacks")
            /\ pc \in {"create_org", "create_post"} => loc.ent.id = arg.id)
    /\ [][(op' = "create" /\ arg'.kind = "accounts" /\ PostsAccount) =>
             /\ pc = "create_post"
             /\ loc.ent.id = arg.id
             /\ loc.org \in Orgs
             /\ Last(log').body =
                   {F("handle", arg.handle), N("stack_id", loc.ent.id),
                    F("organization_id", loc.org),
                    F("type", IF loc.ent.org = "" THEN "development" ELSE "production")}]_vars

C18_Witness ==
    /\ Creating({"accounts"})
    /\ outcome.kind = "returned"
    /\ Len(log) = 3
    /\ F("type", "production") \in log[3].body
    /\ log[3].resp = "http200"

(***************************************************************************)
(* No rollback.                                                            *)
(***************************************************************************)
Failed(e) == IF IsPoll(e) THEN ~Succeeded(e) ELSE e.resp # "http200"

\* C19: AppManager.create sends no compensating request: whatever step
\* fails, its log holds no DELETE and no "deprovision" operation, and a
\* call that raised after the app was created ended on the request that
\* failed (the configure or deploy POST, or the fetch of its operation).
C19_NoRollback ==
    Creating({"apps"}) =>
       /\ Requests("DELETE") = {}
       /\ \A i \in 1..Len(log) : F("type", "deprovision") \notin log[i].body
       /\ (outcome.kind = "raised" /\ Len(log) >= 2) =>
             /\ \A i \in 1..Len(log) - 1 : ~Failed(log[i])
             /\ Failed(Last(log))

C19_Witness ==
    /\ Creating({"apps"})
    /\ Len(log) = 5
    /\ log[3].resp = "succeeded"
    /\ log[5].resp = "failed"
    /\ outcome.kind = "raised"

(***************************************************************************)
(* create_app.                                                             *)
(***************************************************************************)
\* C20: create_app whose account handle resolves POSTs the app, with the
\* handle given, under /accounts/{account.id}/apps, and returns the created
\* app unless that request fails; when the handle does not resolve it raises
\* account-not-found and posts nothing.
C20_CreateAppPostsUnderAccount ==
    (op = "create_app" /\ pc = "done" /\ log # <<>>
       /\ log[1].resp \in {"http200", "http200 without _embedded"}) =>
       IF loc.account = NoEnt
       THEN outcome = AccountNotFound /\ Requests("POST") = {}
       ELSE /\ Len(log) >= 2
            /\ IsCreation(log[2], "accounts", loc.account.id, "apps")
            /\ log[2].body = {F("handle", arg.handle)}
            /\ (outcome.kind = "returned" => outcome.val.id = log[2].rid)

(***************************************************************************)
(* get_vhost, get_accounts_by_stack.                                       *)
(***************************************************************************)
\* C21: get_vhost(id) returns the vhost of the collection whose id is the
\* argument, and None, without raising, when the collection has none.
C21_GetVhostById ==
    Answered("get_vhost") /\ Last(log).resp = "http200" =>
        outcome = Returned(get_by_id(loc.listed, arg.id))

StackNotFound == Raised(Err("Stack not found.", arg.handle, 0))
ListedAccounts ==
    /\ op = "get_accounts_by_stack" /\ pc = "done"
    /\ Len(log) = 2 /\ log[2].resp \in {"http200", "http200 without _embedded"}

\* C22: get_accounts_by_stack returns, in list order, exactly the listed
\* accounts whose stack_id is the id of the stack the name resolves to, and
\* raises stack-not-found when the name resolves to no stack.
C22_AccountsOfTheStack ==
    /\ ListedAccounts =>
          /\ IsList(log[1], "stacks") /\ IsList(log[2], "accounts")
          /\ loc.ent.handle = arg.handle
          /\ outcome.kind = "returned"
          /\ loc.listed = SelectSeq(loc.items, LAMBDA a : a.parent # 0 /\ a.parent = loc.ent.id)
    /\ Answered("get_accounts_by_stack") /\ Len(log) = 1 /\ log[1].resp = "http200" =>
          /\ \A i \in 1..Len(loc.matches) : loc.matches[i].handle # arg.handle
          /\ outcome = StackNotFound

\* Two accounts are listed, one in the stack and one without a stack link;
\* and a name that resolves to no stack.
C22_Witness ==
    \/ /\ ListedAccounts
       /\ Len(loc.items) = 2 /\ Len(loc.listed) = 1
       /\ \E i \in 1..2 : loc.items[i].parent = 0
    \/ Answered("get_accounts_by_stack") /\ outcome = StackNotFound

(***************************************************************************)
(* Computed relation ids and the validation of links.                      *)
(***************************************************************************)
Validated == op = "model_validate" /\ pc = "done"

\* The relation a computed field reads, and the links the payload carried.
RelationOf(field) ==
    CASE field = "account_id" -> "account"
      [] field = "app_id" -> "app"
      [] field = "service_id" -> "service"
      [] field = "stack_id" -> "stack"
      [] field = "database_image_id" -> "database_image"
Carried == IF arg.payload._links.present THEN arg.payload._links.rel ELSE arg.payload.links.rel
TheLink == Carried[RelationOf(arg.handle)]

Mandatory == {"App", "Service", "Vhost"}
MissingRelation ==
    CASE arg.kind = "App" -> "Account is missing from _links"
      [] arg.kind = "Service" -> "App is missing from links"
      [] arg.kind = "Vhost" -> "Service is missing from links"
MissingHref ==
    CASE arg.kind = "App" -> "Account link is missing href"
      [] arg.kind = "Service" -> "App link is missing href"
      [] arg.kind = "Vhost" -> "Service link is missing href"

\* The hrefs that end in an integer path segment, and that integer.
TrailingInteger(href) ==
    CASE href = <<"s", "/", "1">> -> 1
      [] href = <<"s", "/", "1", "2">> -> 12
      [] href = <<"7">> -> 7
      [] OTHER -> -1

\* C23: for App.account_id, Service.app_id and Vhost.service_id a missing
\* link fails naming the missing relation and a link without href fails
\* naming the missing href; for Account.stack_id, Database.account_id and
\* Database.database_image_id both cases yield null; with link and href
\* present each yields the integer that ends the href's path.
C23_MandatoryAndOptionalRelations ==
    Validated =>
        /\ ~TheLink.present =>
              IF arg.kind \in Mandatory
              THEN outcome = Raised(Err(MissingRelation, "", 0))
              ELSE outcome.kind = "returned" /\ loc.derived = Null
        /\ TheLink.present /\ (~TheLink.has_href \/ TheLink.href = <<>>) =>
              IF arg.kind \in Mandatory
              THEN outcome = Raised(Err(MissingHref, "", 0))
              ELSE outcome.kind = "returned" /\ loc.derived = Null
        /\ TheLink.present /\ TheLink.has_href /\ TrailingInteger(TheLink.href) # -1 =>
              outcome.kind = "returned" /\ loc.derived = Integer(TrailingInteger(TheLink.href))

\* A database payload whose links have the image and not the account, read
\* for its account; and an id of more than one digit.
C23_Witness ==
    \/ /\ Validated /\ arg.kind = "Database" /\ arg.handle = "account_id"
       /\ ~TheLink.present /\ Carried["database_image"].present
       /\ loc.derived = Null
    \/ Validated /\ arg.kind = "App" /\ loc.derived = Integer(12)

\* C26: a payload with "_links" validates to an entity whose links are that
\* mapping and is left with "links" and without "_links"; a payload with
\* only "links" is left as it was and validates to those links.
C26_LinksNormalised ==
    Validated =>
        /\ arg.payload._links.present =>
              /\ loc.links = arg.payload._links.rel
              /\ loc.payload.links.present /\ ~loc.payload._links.present
        /\ ~arg.payload._links.present /\ arg.payload.links.present =>
              /\ loc.payload = arg.payload
              /\ loc.links = arg.payload.links.rel

\* A payload that has both keys, with different mappings.
C26_Witness ==
    /\ Validated
    /\ arg.payload._links.present /\ arg.payload.links.present
    /\ arg.payload._links # arg.payload.links
    /\ loc.links = arg.payload._links.rel

(***************************************************************************)
(* The memoized token.                                                     *)
(***************************************************************************)
AuthenticationErrors ==
    {"Authentication token not found. Please login to Aptible CLI first.", "You are not logged in"}

\* A step of the poller that calls get_token with nothing memoized, no
\* token in the environment and no token in the file.
Unresolvable ==
    /\ pc = "poll" /\ opState' = opState
    /\ ~Truthy(token) /\ ~Truthy(APTIBLE_TOKEN) /\ ~Truthy(tokens_json)

\* C24: once get_token has returned a token the client keeps returning it,
\* whatever the environment and the token file hold by then; a resolution
\* that fails raises an authentication error, sends nothing and leaves no
\* token memoized.
C24_TokenMemoized ==
    [][/\ Truthy(token) => token' = token
       /\ ~Truthy(token) /\ Truthy(token') => token' \in {APTIBLE_TOKEN, tokens_json}
       /\ Unresolvable =>
             /\ pc' = "done" /\ outcome'.kind = "raised"
             /\ outcome'.err.msg \in AuthenticationErrors
             /\ log' = log
             /\ ~Truthy(token')]_vars

\* A request is sent with the memoized token after the file has come to
\* hold another one; and a call has failed on an empty entry.
C24_Witness ==
    \/ /\ token = "filetok" /\ tokens_json = "filetok2"
       /\ pc = "done" /\ log # <<>>
    \/ /\ pc = "done" /\ outcome.kind = "raised" /\ outcome.err.msg = "You are not logged in"
       /\ ~Truthy(token)

(***************************************************************************)
(* What the calls leave on the shared client and managers.                 *)
(***************************************************************************)
\* C25 as stated: after any sequence of tool invocations the memoized token
\* is the only state of the shared client and managers that differs from
\* start-up, so the account manager still has no StackManager.
C25_OnlyTheTokenChanges == stack_manager = FALSE

\* An account creation that has passed the checks of handle and stack_id.
AccountCreationChecked ==
    /\ \/ pc = "idle" /\ op' = "create" /\ arg'.kind = "accounts"
       \/ op = "create_account" /\ pc = "create_account"
    /\ pc' = "create_stack"

\* C25, amended: besides the memoized token the calls change one attribute,
\* the account manager's stack_manager, which is set by an account creation
\* that has passed the checks of its data, by no other step, and is never
\* unset.
C25_OnlyTheTokenAndTheStackManagerChange ==
    [][stack_manager' # stack_manager => stack_manager' /\ AccountCreationChecked]_vars

\* A create_account tool call has ended and left the StackManager behind.
C25_Witness == op = "create_account" /\ pc = "done" /\ stack_manager /\ Len(log) > 1

(***************************************************************************)
(* Operations are waited for.                                              *)
(***************************************************************************)
IsOperationPost(e) == e.m = "POST" /\ e.sub = "operations"

\* C27: a manager call that has POSTed an operation waits on the id that
\* POST returned, sends nothing else and does not return before that wait
\* has ended; whatever it sends after the wait it sends after the wait has
\* ended well, as ServiceManager.scale does its re-fetch of the service.
C27_PostThenWaitOnThatOperation ==
    /\ \A i \in 1..Len(log) :
          IsOperationPost(log[i]) /\ log[i].resp = "http200" =>
             IF i = Len(log)
             THEN pc = "poll" /\ loc.opid = log[i].rid
             ELSE /\ IsPoll(log[i + 1]) /\ log[i + 1].id = log[i].rid
                  /\ i + 1 < Len(log) => Succeeded(log[i + 1])
                  /\ i + 1 = Len(log) /\ ~Succeeded(log[i + 1]) =>
                        \/ pc = "poll" /\ loc.opid = log[i].rid
                        \/ pc = "done" /\ outcome.kind = "raised"
    /\ \A j \in 1..Len(log) :
          Scaling /\ IsList(log[j], "services") =>
             j > 2 /\ Succeeded(log[j - 1]) /\ IsScale(log[j - 2])

\* A scale has waited, re-fetched the service and returned it; and a create
\* is waiting on its second operation.
C27_Witness ==
    \/ /\ Scaling /\ pc = "done" /\ outcome.kind = "returned"
       /\ Len(log) > 2 /\ IsList(Last(log), "services")
    \/ /\ Creating({"apps"}) /\ pc = "poll" /\ Len(log) = 5
       /\ log[5].resp = "running" /\ log[5].n = MaxPolls

(***************************************************************************)
(* The tools that only read.                                               *)
(***************************************************************************)
\* The list_* and get_* tools, the manager reads under them, and the poller.
ReadOnly ==
    {"get", "get_service", "get_vhost", "get_accounts_by_stack", "list_services",
     "list_service_vhosts", "manager_list", "manager_get", "manager_get_by_id",
     "wait_for_operation"}

\* C28: the read-only tools and the operation poller send GET requests
\* only, whether they succeed or raise.
C28_ReadOnlyToolsOnlyGet ==
    op \in ReadOnly => \A i \in 1..Len(log) : log[i].m = "GET"

\* list_service_vhosts has made all its requests; and a listing has raised.
C28_Witness ==
    \/ /\ op = "list_service_vhosts" /\ pc = "done" /\ outcome.kind = "returned"
       /\ Len(log) = 4 /\ Len(loc.listed) = 2
    \/ /\ op = "manager_list" /\ arg.kind = "database_images" /\ pc = "done"
       /\ outcome.kind = "raised" /\ log # <<>>

(***************************************************************************)
(* AppManager.get_services.                                                *)
(***************************************************************************)
\* C29: get_services raises "ServiceManager not injected into AppManager"
\* when the app manager has no service manager, never set or set to None;
\* with one injected it returns what that manager's list_by_app(app_id)
\* returns.
C29_GetServicesNeedsAServiceManager ==
    op = "get_services" =>
        /\ pc = "done" /\ app_service_manager # "set" =>
              outcome = Raised(Err("ServiceManager not injected into AppManager", "", 0))
        /\ app_service_manager = "set" /\ log # <<>> =>
              /\ log[1] = [GET("apps", arg.id, "services", TRUE)
                              EXCEPT !.resp = log[1].resp, !.rid = log[1].rid]
              /\ log[1].resp = "http200" => outcome.kind = "returned"

(***************************************************************************)
(* api_client.organization_id.                                             *)
(***************************************************************************)
\* GET {auth}/organizations has answered 200 with its list.
GotOrganizations ==
    /\ log # <<>> /\ Last(log).coll = "auth/organizations"
    /\ Last(log).resp = "http200"

\* C30: organization_id returns the id of the first organization of the
\* list, and raises "Logged in user is not a member of any organizations."
\* when the list is empty.
C30_FirstOrganizationOrNoMembership ==
    GotOrganizations =>
        IF loc.listed = <<>>
        THEN /\ pc = "done"
             /\ outcome = Raised(Err("Logged in user is not a member of any organizations.", "", 0))
        ELSE pc = "create_post" /\ loc.org = loc.listed[1]

====
